---- MODULE Spec2Model ----
(***************************************************************************)
(* Care scheduling engine of plants-text                                   *)
(* (backend/app/services/care_scheduler.py): knowledge-base lookup,        *)
(* watering heuristics, schedule generation and due reminders; and its     *)
(* SMS processor (backend/app/services/sms_processor.py): care action and  *)
(* plant name found in an inbound message, and the care recorded.          *)
(*                                                                         *)
(* Time is counted in ticks since 1 January of year 0 of a 365-day         *)
(* calendar; TicksPerDay ticks make one day, so that "whole days"          *)
(* (timedelta.days) is a real floor.  Multipliers are kept in tenths       *)
(* (13 stands for 1.3).  Text is kept as TLA+ strings and handled          *)
(* character by character.                                                 *)
(***************************************************************************)
EXTENDS Integers, Sequences, FiniteSets, TLC

VARIABLES now, care_data, personality_data, kaggle_data, ret,
          db_users, db_user_plants, db_care_history, sms_queue

(* The rows of the tables users, user_plants and care_history, and the SMS *)
(* tasks handed to the task queue                                          *)
db == <<db_users, db_user_plants, db_care_history, sms_queue>>

vars == <<now, care_data, personality_data, kaggle_data, ret, db>>

-----------------------------------------------------------------------------
(* Bounds *)

TicksPerDay == 2
MaxAdvance == 1
MaxPlants == 2

(* A key that a JSON object (or a dict) does not carry, and Python's None. *)
Missing == -1
None == -1

Days(n) == n * TicksPerDay

(* timedelta.days: whole days, rounded towards minus infinity *)
WholeDays(delta) == delta \div TicksPerDay

-----------------------------------------------------------------------------
(* Strings *)

(* The letters str.lower() changes, each with its lower-case form *)
LowerCase ==
    [A |-> "a", B |-> "b", C |-> "c", D |-> "d", E |-> "e", F |-> "f", G |-> "g",
     H |-> "h", I |-> "i", J |-> "j", K |-> "k", L |-> "l", M |-> "m", N |-> "n",
     O |-> "o", P |-> "p", Q |-> "q", R |-> "r", S |-> "s", T |-> "t", U |-> "u",
     V |-> "v", W |-> "w", X |-> "x", Y |-> "y", Z |-> "z"]

CharAt(s, i) == SubSeq(s, i, i)

LowerChar(c) == IF c \in DOMAIN LowerCase THEN LowerCase[c] ELSE c

RECURSIVE Lower(_)
(* str.lower() *)
Lower(s) ==
    IF Len(s) = 0 THEN "" ELSE LowerChar(CharAt(s, 1)) \o Lower(SubSeq(s, 2, Len(s)))

RECURSIVE SpacesToUnderscores(_)
(* str.replace(" ", "_") *)
SpacesToUnderscores(s) ==
    IF Len(s) = 0 THEN ""
    ELSE (IF CharAt(s, 1) = " " THEN "_" ELSE CharAt(s, 1))
         \o SpacesToUnderscores(SubSeq(s, 2, Len(s)))

RECURSIVE StripLeft(_)
StripLeft(s) ==
    IF Len(s) > 0 /\ CharAt(s, 1) = " " THEN StripLeft(SubSeq(s, 2, Len(s))) ELSE s

RECURSIVE StripRight(_)
StripRight(s) ==
    IF Len(s) > 0 /\ CharAt(s, Len(s)) = " " THEN StripRight(SubSeq(s, 1, Len(s) - 1)) ELSE s

(* str.strip() *)
Strip(s) == StripRight(StripLeft(s))

(* a in b *)
Contains(b, a) ==
    \E i \in 0..(Len(b) - Len(a)) : SubSeq(b, i + 1, i + Len(a)) = a

ContainsAny(b, keywords) == \E k \in keywords : Contains(b, k)

-----------------------------------------------------------------------------
(* Calendar *)

Seasons == {"spring", "summer", "fall", "winter"}
GrowthStages == {"new_plant", "established", "mature"}

(* datetime.month of an instant, 365-day years *)
MonthOf(t) ==
    LET doy == (t \div TicksPerDay) % 365
    IN  IF doy < 31 THEN 1
        ELSE IF doy < 59 THEN 2
        ELSE IF doy < 90 THEN 3
        ELSE IF doy < 120 THEN 4
        ELSE IF doy < 151 THEN 5
        ELSE IF doy < 181 THEN 6
        ELSE IF doy < 212 THEN 7
        ELSE IF doy < 243 THEN 8
        ELSE IF doy < 273 THEN 9
        ELSE IF doy < 304 THEN 10
        ELSE IF doy < 334 THEN 11
        ELSE 12

get_current_season(date) ==
    LET month == MonthOf(date)
    IN  IF month \in {3, 4, 5} THEN "spring"
        ELSE IF month \in {6, 7, 8} THEN "summer"
        ELSE IF month \in {9, 10, 11} THEN "fall"
        ELSE "winter"

(* Variant: the 28th and the 365th day still count for the earlier stage *)
determine_growth_stage_Inclusive(t, plant_added_date) ==
    LET days_owned == WholeDays(t - plant_added_date)
    IN  IF days_owned <= 28 THEN "new_plant"
        ELSE IF days_owned <= 365 THEN "established"
        ELSE "mature"

determine_growth_stage(t, plant_added_date) ==
    LET days_owned == WholeDays(t - plant_added_date)
    IN  IF days_owned < 28 THEN "new_plant"
        ELSE IF days_owned < 365 THEN "established"
        ELSE "mature"

-----------------------------------------------------------------------------
(* WateringHeuristicParser *)

DefaultSeasonalMultipliers ==
    [s \in Seasons |->
        CASE s = "spring" -> 9 [] s = "summer" -> 8 [] s = "fall" -> 11 [] s = "winter" -> 13]

DryKeywords == {"only when", "must be dry", "completely dry", "dry between"}
MoistKeywords == {"moist", "must not be dry", "keep wet", "frequently"}
ModerateKeywords == {"half dry", "regularly", "normal", "moderate"}
VaseKeywords == {"change water", "vase", "water in vase"}

IsSucculent(category_lower) ==
    Contains(category_lower, "succulent") \/ Contains(category_lower, "cactus")

Max(a, b) == IF a >= b THEN a ELSE b
Min(a, b) == IF a <= b THEN a ELSE b

(* Variant: the moisture keywords are tested before the drought keywords *)
PhraseRule_MoistFirst(watering_lower) ==
    IF ContainsAny(watering_lower, MoistKeywords) THEN "moist"
    ELSE IF ContainsAny(watering_lower, DryKeywords) THEN "dry"
    ELSE IF ContainsAny(watering_lower, ModerateKeywords) THEN "moderate"
    ELSE IF ContainsAny(watering_lower, VaseKeywords) THEN "vase"
    ELSE "category"

(* The branch of the phrase test that a lower-cased watering text takes *)
PhraseRule(watering_lower) ==
    IF ContainsAny(watering_lower, DryKeywords) THEN "dry"
    ELSE IF ContainsAny(watering_lower, MoistKeywords) THEN "moist"
    ELSE IF ContainsAny(watering_lower, ModerateKeywords) THEN "moderate"
    ELSE IF ContainsAny(watering_lower, VaseKeywords) THEN "vase"
    ELSE "category"

(* base_freq as the branch sets it *)
BaseFrequency(rule, succulent, fern) ==
    CASE rule = "dry" -> 14
      [] rule = "moist" -> 4
      [] rule = "moderate" -> 7
      [] rule = "vase" -> 5
      [] OTHER -> IF succulent THEN 14 ELSE IF fern THEN 4 ELSE 7

(* seasonal_multipliers as the branch leaves them *)
SeasonalMultipliers(rule) ==
    CASE rule = "dry" -> [DefaultSeasonalMultipliers EXCEPT !["winter"] = 15]
      [] rule = "moist" -> [DefaultSeasonalMultipliers EXCEPT !["summer"] = 7]
      [] rule = "vase" -> [DefaultSeasonalMultipliers EXCEPT !["winter"] = 12]
      [] OTHER -> DefaultSeasonalMultipliers

(* Variant: the base frequency of the phrase rule is returned as it is *)
CategoryClamp_Skipped(base_freq, succulent, fern) == base_freq

(* "Adjust base frequency based on plant category" *)
CategoryClamp(base_freq, succulent, fern) ==
    IF succulent THEN Max(base_freq, 10)
    ELSE IF fern THEN Min(base_freq, 5)
    ELSE base_freq

ParseRule(rule, succulent, fern) ==
    <<CategoryClamp(BaseFrequency(rule, succulent, fern), succulent, fern),
      SeasonalMultipliers(rule)>>

ParseLowered(watering_lower, category_lower) ==
    ParseRule(PhraseRule(watering_lower), IsSucculent(category_lower),
              Contains(category_lower, "fern"))

(* Returns <<base_freq, seasonal_multipliers>> *)
parse_watering_frequency_from_text(watering_text, category) ==
    ParseLowered(Lower(watering_text), Lower(category))

(* _create_category_personality_map, in declaration order *)
category_personality_map ==
    << <<"cactus and succulent", "sarcastic_survivor">>,
       <<"succulent", "sarcastic_survivor">>,
       <<"cactus", "sarcastic_survivor">>,
       <<"dracaena", "steady_reliable">>,
       <<"fern", "dramatic_communicator">>,
       <<"bromeliad", "dramatic_diva">>,
       <<"orchid", "high_maintenance_diva">>,
       <<"foliage plant", "chill_friend">>,
       <<"hanging", "chill_friend">>,
       <<"vine", "chill_friend">>,
       <<"climbing", "chill_friend">>,
       <<"tree", "steady_reliable">>,
       <<"palm", "steady_reliable">>,
       <<"shrub", "steady_reliable">>,
       <<"air plant", "independent_survivor">>,
       <<"epiphyte", "independent_survivor">> >>

First(S) == CHOOSE i \in S : \A j \in S : i <= j

PersonalityOf(hits, climate_lower) ==
    IF hits # {}
    THEN category_personality_map[First(hits)][2]
    ELSE IF Contains(climate_lower, "desert") \/ Contains(climate_lower, "arid")
    THEN "sarcastic_survivor"
    ELSE IF Contains(climate_lower, "tropical humid") THEN "dramatic_diva"
    ELSE "chill_friend"

CategoryHits(category_lower) ==
    {i \in 1..Len(category_personality_map) :
        Contains(category_lower, category_personality_map[i][1])}

get_personality_from_category(category, climate) ==
    PersonalityOf(CategoryHits(Lower(category)), Lower(climate))

-----------------------------------------------------------------------------
(* PlantKnowledgeBase: the backing data.  The two documents are data of    *)
(* the deployment; the tables below are the ones the engine is run on here.*)

Mult(sp, su, fa, wi) ==
    [s \in Seasons |->
        CASE s = "spring" -> sp [] s = "summer" -> su [] s = "fall" -> fa [] s = "winter" -> wi]

Growth(n, e, m) ==
    [g \in GrowthStages |->
        CASE g = "new_plant" -> n [] g = "established" -> e [] g = "mature" -> m]

(* plant_care_schedules.json: plant_care_database.plants, in document order. *)
(* A field that is Missing (or "" for personality) is absent from the JSON.  *)
CuratedPlants ==
    << [key |-> "sansevieria",
        info |-> [common_names |-> <<"Snake Plant", "Mother-in-Law's Tongue">>,
                  personality |-> "sarcastic_survivor",
                  data_source |-> "curated",
                  frequency_days |-> 15,
                  seasonal |-> Mult(9, 8, 11, 15),
                  growth |-> Growth(12, 10, 9),
                  fertilizing_days |-> 30,
                  repotting_years |-> 3]],
       [key |-> "snake_plant",
        info |-> [common_names |-> <<"Sansevieria">>,
                  personality |-> "steady_reliable",
                  data_source |-> "curated",
                  frequency_days |-> 14,
                  seasonal |-> Mult(9, 8, 11, 13),
                  growth |-> Growth(12, 10, 9),
                  fertilizing_days |-> 60,
                  repotting_years |-> 2]],
       [key |-> "pothos",
        info |-> [common_names |-> <<"Golden Pothos", "Devil's Ivy">>,
                  personality |-> "",
                  data_source |-> "curated",
                  frequency_days |-> Missing,
                  seasonal |-> Mult(Missing, Missing, Missing, Missing),
                  growth |-> Growth(Missing, Missing, Missing),
                  fertilizing_days |-> Missing,
                  repotting_years |-> Missing]],
       [key |-> "basil",
        info |-> [common_names |-> <<"Sweet Basil">>,
                  personality |-> "dramatic_diva",
                  data_source |-> "curated",
                  frequency_days |-> 1,
                  seasonal |-> Mult(9, 8, 11, 13),
                  growth |-> Growth(12, 10, 9),
                  fertilizing_days |-> 14,
                  repotting_years |-> 1]] >>

(* house_plants.json, in document order *)
KagglePlants ==
    << [common |-> <<"Fern">>,
        category |-> "Fern",
        watering |-> "Keep moist between watering & Water when soil is half dry",
        climate |-> "Tropical humid"],
       [common |-> <<"Boston fern", "Sword fern">>,
        category |-> "Fern",
        watering |-> "Water when soil is half dry & Change water regularly in the cup",
        climate |-> "Tropical"],
       [common |-> <<"Snake plant">>,
        category |-> "Cactus And Succulent",
        watering |-> "Must dry between watering & Water only when dry",
        climate |-> "Arid Tropical"],
       [common |-> <<"Devil's ivy", "Pothos">>,
        category |-> "Hanging",
        watering |-> "Keep moist between watering & Must not be dry between watering",
        climate |-> "Tropical"],
       [common |-> << >>,
        category |-> "Palm",
        watering |-> "Water when soil is half dry",
        climate |-> "Subtropical"],
       [common |-> <<"Urn plant">>,
        category |-> "Bromeliad",
        watering |-> "Change water regularly in the cup",
        climate |-> "Tropical"] >>

(* d[k] = v on an insertion-ordered dict *)
DictSet(d, k, v) ==
    IF \E i \in 1..Len(d) : d[i].name = k
    THEN [i \in 1..Len(d) |-> IF d[i].name = k THEN [name |-> k, plant |-> v] ELSE d[i]]
    ELSE Append(d, [name |-> k, plant |-> v])

RECURSIVE IndexNames(_, _, _)
IndexNames(d, names, plant) ==
    IF Len(names) = 0 THEN d
    ELSE IndexNames(DictSet(d, Lower(Head(names)), plant), Tail(names), plant)

RECURSIVE IndexPlants(_, _)
IndexPlants(d, plants_list) ==
    IF Len(plants_list) = 0 THEN d
    ELSE LET plant == Head(plants_list)
             d1 == IF Len(plant.common) > 0
                   THEN IndexNames(DictSet(d, Lower(plant.common[1]), plant),
                                   plant.common, plant)
                   ELSE d
         IN  IndexPlants(d1, Tail(plants_list))

(* _load_kaggle_data: file present / FileNotFoundError *)
LoadedKaggleData == IndexPlants(<< >>, KagglePlants)
EmptyKaggleData == << >>

(* _load_care_data: file present / FileNotFoundError *)
LoadedCareData == CuratedPlants
EmptyCareData == << >>

(* plant_personalities.json: plant_personalities.personalities, the keys *)
Personalities ==
    <<"sarcastic_survivor", "dramatic_diva", "chill_friend", "steady_reliable",
      "high_maintenance_diva", "independent_survivor", "dramatic_communicator">>

(* _load_personality_data: file present / FileNotFoundError *)
LoadedPersonalityData == Personalities
EmptyPersonalityData == << >>

(* What open() and json.load() make of a backing file *)
FileStates == {"present", "missing", "malformed"}
Sources == {"care", "personality", "kaggle"}

(* A loader's outcome: the table it returns, or the exception that leaves it. *)
(* Only FileNotFoundError is caught; json.load raises JSONDecodeError on a    *)
(* document that is not JSON.                                                 *)
Loaded(file, table, empty) ==
    CASE file = "present" -> [raised |-> "", table |-> table]
      [] file = "missing" -> [raised |-> "", table |-> empty]
      [] file = "malformed" -> [raised |-> "JSONDecodeError", table |-> empty]

_load_care_data(file) == Loaded(file, LoadedCareData, EmptyCareData)
_load_personality_data(file) == Loaded(file, LoadedPersonalityData, EmptyPersonalityData)
_load_kaggle_data(file) == Loaded(file, LoadedKaggleData, EmptyKaggleData)

-----------------------------------------------------------------------------
(* Lookup *)

(* The care info dict built from what the parser and the personality map return *)
CareInfo(plant_data, parsed, personality) ==
    [common_names |-> plant_data.common,
     personality |-> personality,
     data_source |-> "kaggle_enhanced",
     frequency_days |-> parsed[1],
     seasonal |-> parsed[2],
     growth |-> Growth(12, 10, 9),
     fertilizing_days |-> IF ~Contains(Lower(plant_data.category), "succulent") THEN 45 ELSE 90,
     repotting_years |-> Missing]

_create_care_info_from_kaggle(plant_data) ==
    CareInfo(plant_data,
             parse_watering_frequency_from_text(plant_data.watering, plant_data.category),
             get_personality_from_category(plant_data.category, plant_data.climate))

(* The entries of the curated table whose key is the normalised name *)
Tier1Hits(plants, plant_type) ==
    {i \in 1..Len(plants) : plants[i].key = SpacesToUnderscores(Lower(plant_type))}

HasCommonName(plant_info, lower) ==
    \E n \in 1..Len(plant_info.common_names) : Lower(plant_info.common_names[n]) = lower

(* The entries of the curated table one of whose common names is the name *)
Tier2Hits(plants, plant_type) ==
    {i \in 1..Len(plants) : HasCommonName(plants[i].info, Lower(plant_type))}

(* The entries of the open catalog indexed under the name *)
Tier3Hits(kaggle, plant_type) ==
    {i \in 1..Len(kaggle) : kaggle[i].name = Lower(plant_type)}

PartialMatch(kaggle_name, lower) ==
    Contains(kaggle_name, lower) \/ Contains(lower, kaggle_name)

(* The entries of the open catalog whose name contains the name, or the reverse *)
Tier4Hits(kaggle, plant_type) ==
    {i \in 1..Len(kaggle) : PartialMatch(kaggle[i].name, Lower(plant_type))}

(* The catalog tiers, given their hits *)
KaggleLookup(kaggle, hits3, hits4) ==
    IF hits3 # {} \/ hits4 # {}
    THEN <<_create_care_info_from_kaggle(
              kaggle[IF hits3 # {} THEN First(hits3) ELSE First(hits4)].plant)>>
    ELSE << >>

(* Variant: the common names of the curated profiles are tried before the keys *)
TieredLookup_AliasFirst(plants, kaggle, hits1, hits2, hits3, hits4) ==
    IF hits2 # {} THEN <<plants[First(hits2)].info>>
    ELSE IF hits1 # {} THEN <<plants[First(hits1)].info>>
    ELSE KaggleLookup(kaggle, hits3, hits4)

(* The four tiers in the order the code tries them, given their hits *)
TieredLookup(plants, kaggle, hits1, hits2, hits3, hits4) ==
    IF hits1 # {} THEN <<plants[First(hits1)].info>>
    ELSE IF hits2 # {} THEN <<plants[First(hits2)].info>>
    ELSE KaggleLookup(kaggle, hits3, hits4)

(* Optional[Dict]: << >> is None, <<info>> a profile *)
get_plant_care_info(plants, kaggle, plant_type) ==
    TieredLookup(plants, kaggle,
                 Tier1Hits(plants, plant_type), Tier2Hits(plants, plant_type),
                 Tier3Hits(kaggle, plant_type), Tier4Hits(kaggle, plant_type))

-----------------------------------------------------------------------------
(* CareScheduleEngine *)

(* The triples <<base, m1, m2>> with base in 0..30 and m1, m2 in 1..20      *)
(* tenths for which the double-precision value of base * (m1/10 * m2/10)   *)
(* lies below the exact product, an integer, so that int() yields one less *)
(* than the exact floor.  Everywhere else in that range int() of the double *)
(* product is the exact floor.                                             *)
DoubleRoundsBelow ==
    { <<10, 14, 15>>, <<10, 15, 14>>, <<15, 12, 15>>, <<15, 15, 12>>, <<20, 7, 15>>,
      <<20, 14, 15>>, <<20, 15, 7>>, <<20, 15, 14>>, <<20, 15, 19>>, <<20, 19, 15>>,
      <<25, 2, 14>>, <<25, 4, 7>>, <<25, 4, 14>>, <<25, 7, 4>>, <<25, 7, 8>>,
      <<25, 7, 16>>, <<25, 8, 7>>, <<25, 8, 14>>, <<25, 12, 15>>, <<25, 12, 19>>,
      <<25, 14, 2>>, <<25, 14, 4>>, <<25, 14, 8>>, <<25, 14, 14>>, <<25, 14, 16>>,
      <<25, 15, 12>>, <<25, 16, 7>>, <<25, 16, 14>>, <<25, 19, 12>>, <<30, 6, 15>>,
      <<30, 12, 15>>, <<30, 14, 15>>, <<30, 15, 6>>, <<30, 15, 12>>, <<30, 15, 14>> }

(* The exact floor of base * m1/10 * m2/10 *)
ExactFloor(base, m1, m2) == (base * m1 * m2) \div 100

(* Variant: round() instead of int() *)
AdjustedFrequency_Rounded(base, seasonal_multiplier, growth_multiplier) ==
    (base * seasonal_multiplier * growth_multiplier + 50) \div 100

(* seasonal_multiplier *= growth_multiplier; int(base_frequency * seasonal_multiplier) *)
AdjustedFrequency(base, seasonal_multiplier, growth_multiplier) ==
    IF <<base, seasonal_multiplier, growth_multiplier>> \in DoubleRoundsBelow
    THEN ExactFloor(base, seasonal_multiplier, growth_multiplier) - 1
    ELSE ExactFloor(base, seasonal_multiplier, growth_multiplier)

(* dict.get(key, default) on a numeric field *)
GetOr(value, default) == IF value = Missing THEN default ELSE value

(* Variant: the default schedule of an unknown plant keeps the default     *)
(* seasonal multiplier instead of 1.0                                      *)
FrequencyFor_SeasonalDefault(plant_info, growth_stage, season) ==
    IF Len(plant_info) = 0
    THEN AdjustedFrequency(7, DefaultSeasonalMultipliers[season], 10)
    ELSE AdjustedFrequency(GetOr(plant_info[1].frequency_days, 7),
                           GetOr(plant_info[1].seasonal[season], 10),
                           GetOr(plant_info[1].growth[growth_stage], 10))

(* adjusted_frequency for the looked-up plant_info: the default schedule   *)
(* for an unknown plant, else base and multipliers of the profile          *)
FrequencyFor(plant_info, growth_stage, season) ==
    IF Len(plant_info) = 0
    THEN AdjustedFrequency(7, 10, 10)
    ELSE AdjustedFrequency(GetOr(plant_info[1].frequency_days, 7),
                           GetOr(plant_info[1].seasonal[season], 10),
                           GetOr(plant_info[1].growth[growth_stage], 10))

NextWatering(last_watered, adjusted_frequency) ==
    <<last_watered + Days(adjusted_frequency), adjusted_frequency>>

(* Returns <<next_watering, adjusted_frequency>> at the instant t *)
calculate_watering_schedule(plants, kaggle, t, plant_type, last_watered, plant_added_date, season) ==
    NextWatering(last_watered,
                 FrequencyFor(get_plant_care_info(plants, kaggle, plant_type),
                              determine_growth_stage(t, plant_added_date), season))

(* Variant: a plant never fertilized is due for fertilizing at once *)
NextFertilizing_DueNow(plant_info, t, last_fertilized) ==
    IF Len(plant_info) = 0 THEN None
    ELSE IF last_fertilized # None
    THEN last_fertilized + Days(GetOr(plant_info[1].fertilizing_days, 60))
    ELSE t

(* "Calculate fertilizing schedule" *)
NextFertilizing(plant_info, t, last_fertilized) ==
    IF Len(plant_info) = 0 THEN None
    ELSE IF last_fertilized # None
    THEN last_fertilized + Days(GetOr(plant_info[1].fertilizing_days, 60))
    ELSE t + Days(14)

(* "Calculate repotting reminder" *)
NextRepotting(plant_info, plant_added_date) ==
    IF Len(plant_info) = 0 THEN None
    ELSE plant_added_date + Days(GetOr(plant_info[1].repotting_years, 2) * 365)

PersonalityType(plant_info) ==
    IF Len(plant_info) > 0 /\ plant_info[1].personality # ""
    THEN plant_info[1].personality
    ELSE "chill_friend"

(* The CareSchedule constructed from the watering schedule and plant_info *)
CareSchedule(plant_id, plant_name, plant_type, t, watering, plant_info, plant_added_date, last_fertilized) ==
    [plant_id |-> plant_id,
     plant_name |-> plant_name,
     plant_type |-> plant_type,
     next_watering |-> watering[1],
     next_fertilizing |-> NextFertilizing(plant_info, t, last_fertilized),
     next_repotting |-> NextRepotting(plant_info, plant_added_date),
     watering_frequency_days |-> watering[2],
     seasonal_adjustments |-> get_current_season(t),
     growth_stage |-> determine_growth_stage(t, plant_added_date),
     personality_type |-> PersonalityType(plant_info)]

(* The CareSchedule built at the instant t *)
generate_care_schedule(plants, kaggle, t, plant_id, plant_name, plant_type, last_watered, plant_added_date, last_fertilized) ==
    CareSchedule(plant_id, plant_name, plant_type, t,
                 calculate_watering_schedule(plants, kaggle, t, plant_type, last_watered,
                                             plant_added_date, get_current_season(t)),
                 get_plant_care_info(plants, kaggle, plant_type),
                 plant_added_date, last_fertilized)

(* Variant: the medium band of watering ends one day early *)
_calculate_urgency_OffByOne(care_type, days_overdue) ==
    IF care_type = "watering"
    THEN IF days_overdue <= 0 THEN "low"
         ELSE IF days_overdue < 2 THEN "medium"
         ELSE IF days_overdue <= 5 THEN "high"
         ELSE "critical"
    ELSE IF care_type = "fertilizing"
    THEN IF days_overdue <= 7 THEN "low"
         ELSE IF days_overdue <= 30 THEN "medium"
         ELSE "high"
    ELSE "medium"

_calculate_urgency(care_type, days_overdue) ==
    IF care_type = "watering"
    THEN IF days_overdue <= 0 THEN "low"
         ELSE IF days_overdue <= 2 THEN "medium"
         ELSE IF days_overdue <= 5 THEN "high"
         ELSE "critical"
    ELSE IF care_type = "fertilizing"
    THEN IF days_overdue <= 7 THEN "low"
         ELSE IF days_overdue <= 30 THEN "medium"
         ELSE "high"
    ELSE "medium"

CareReminder(schedule, care_type, due_date, t) ==
    [plant_id |-> schedule.plant_id,
     plant_name |-> schedule.plant_name,
     care_type |-> care_type,
     due_date |-> due_date,
     urgency |-> _calculate_urgency(care_type, WholeDays(t - due_date)),
     personality_type |-> schedule.personality_type]

(* Variant: the watering reminder is appended without the due-date test *)
WateringDue_Unchecked(schedule, t) ==
    <<CareReminder(schedule, "watering", schedule.next_watering, t)>>

(* "Check watering": the reminder appended for a schedule, if any *)
WateringDue(schedule, t) ==
    IF schedule.next_watering <= t
    THEN <<CareReminder(schedule, "watering", schedule.next_watering, t)>>
    ELSE << >>

(* "Check fertilizing" *)
FertilizingDue(schedule, t) ==
    IF schedule.next_fertilizing # None /\ schedule.next_fertilizing <= t
    THEN <<CareReminder(schedule, "fertilizing", schedule.next_fertilizing, t)>>
    ELSE << >>

(* The exception that leaves generate_care_schedule, "" for none, given    *)
(* whether plant_added_date is offset-aware: determine_growth_stage        *)
(* subtracts it from datetime.now(), which is offset-naive, and datetime   *)
(* raises TypeError on a difference of a naive and an aware operand.       *)
(* last_watered and last_fertilized only have a timedelta added.           *)
GenerateRaised(plant_added_date_aware) ==
    IF plant_added_date_aware THEN "TypeError" ELSE ""

(* The body of the loop of get_due_reminders raises for a plant dict: in   *)
(* generate_care_schedule on an aware created_at, else at                  *)
(* "next_watering <= now" on an aware last_watered, else at                *)
(* "next_fertilizing <= now" on an aware last_fertilized of a known plant; *)
(* now is datetime.now(), and the defaults for absent keys derive from it  *)
PlantRaises(plant_info, plant, tz) ==
    \/ plant.created_at # Missing /\ tz.created_at
    \/ plant.last_watered # Missing /\ tz.last_watered
    \/ plant_info # << >> /\ plant.last_fertilized # None /\ tz.last_fertilized

(* The exception that leaves get_due_reminders, "" for none, given which   *)
(* of the timestamps in the plant dicts are offset-aware (tz)              *)
DueRemindersRaised(plants, kaggle, user_plants, tz) ==
    IF \E i \in 1..Len(user_plants) :
          PlantRaises(get_plant_care_info(plants, kaggle, user_plants[i].common_name),
                      user_plants[i], tz)
    THEN "TypeError"
    ELSE ""

(* The schedule get_due_reminders generates for one plant dict *)
ScheduleOf(plants, kaggle, t, plant) ==
    generate_care_schedule(plants, kaggle, t, plant.id, plant.nickname, plant.common_name,
                           GetOr(plant.last_watered, t - Days(7)),
                           GetOr(plant.created_at, t - Days(30)),
                           plant.last_fertilized)

(* Variant: a repotting date that has passed is reminded of as well *)
DueReminders_WithRepotting(schedule, t) ==
    WateringDue(schedule, t) \o FertilizingDue(schedule, t)
    \o (IF schedule.next_repotting # None /\ schedule.next_repotting <= t
        THEN <<CareReminder(schedule, "repotting", schedule.next_repotting, t)>>
        ELSE << >>)

(* The reminders appended for one schedule, watering first *)
DueReminders(schedule, t) == WateringDue(schedule, t) \o FertilizingDue(schedule, t)

RECURSIVE CollectReminders(_, _, _, _)
(* The loop of get_due_reminders: the reminders in the order they are appended *)
CollectReminders(plants, kaggle, t, user_plants) ==
    IF Len(user_plants) = 0 THEN << >>
    ELSE DueReminders(ScheduleOf(plants, kaggle, t, Head(user_plants)), t)
         \o CollectReminders(plants, kaggle, t, Tail(user_plants))

(* Inserts r behind every element whose due date is not later *)
InsertByDueDate(sorted, r) ==
    LET before == {i \in 1..Len(sorted) : sorted[i].due_date <= r.due_date}
        k == Cardinality(before)
    IN  SubSeq(sorted, 1, k) \o <<r>> \o SubSeq(sorted, k + 1, Len(sorted))

(* Variant: the reminders are returned in the order they were appended *)
SortedByDueDate_Unsorted(reminders) == reminders

RECURSIVE SortedByDueDate(_)
(* sorted(reminders, key=lambda x: x.due_date): stable *)
SortedByDueDate(reminders) ==
    IF Len(reminders) = 0 THEN << >>
    ELSE InsertByDueDate(SortedByDueDate(SubSeq(reminders, 1, Len(reminders) - 1)),
                         reminders[Len(reminders)])

get_due_reminders(plants, kaggle, t, user_plants) ==
    SortedByDueDate(CollectReminders(plants, kaggle, t, user_plants))

(* plant_care_schedules.json: plant_care_database.seasonal_care_calendar.   *)
(* A season may be absent, and so may its general_notes (<< >>) or tasks.   *)
SeasonalCareCalendar ==
    << [season |-> "spring",
        general_notes |-> <<"Growth resumes: water more often">>,
        tasks |-> <<"Start fertilizing", "Repot root-bound plants">>],
       [season |-> "summer",
        general_notes |-> << >>,
        tasks |-> <<"Check the soil twice a week">>],
       [season |-> "winter",
        general_notes |-> <<"Most plants rest: water less">>,
        tasks |-> << >>] >>

(* self.care_data.get("plant_care_database", {}).get("seasonal_care_calendar", {}) *)
seasonal_calendar(plants) == IF plants = << >> THEN << >> ELSE SeasonalCareCalendar

(* general_notes, then the tasks, of the season's entry; [] without one *)
SeasonTips(calendar, season) ==
    LET found == {i \in 1..Len(calendar) : calendar[i].season = season}
    IN  IF found = {} THEN << >>
        ELSE calendar[First(found)].general_notes \o calendar[First(found)].tasks

(* season None is the current season *)
get_seasonal_care_tips(plants, t, season) ==
    SeasonTips(seasonal_calendar(plants),
               IF season = "" THEN get_current_season(t) ELSE season)

-----------------------------------------------------------------------------
(* Inputs *)

(* One instant in each season of year 2: 16 Jan, 16 Apr, 15 Jul, 16 Oct *)
StartInstants == {Days(730 + 15), Days(730 + 105), Days(730 + 195), Days(730 + 288)}

(* Species names passed to the engine *)
PlantTypes ==
    {"Snake Plant", "Sansevieria", "pothos", "Basil", "Boston Fern", "Urn plant", "Orchid"}

(* Names looked up directly *)
LookupNames ==
    PlantTypes \cup
    {"snake_plant", "SNAKE PLANT", " snake plant", "Devil's Ivy", "Golden Pothos",
     "Sword fern", "fern", "ivy", "Urn plant (large)", "Sweet Basil", "Monstera", "",
     "Basil ", "Snake_Plant"}

Nickname(id) ==
    IF id = 1 THEN "Fernando" ELSE IF id = 2 THEN "Sammy" ELSE "Drama Queen"

(* Ages, in ticks before the call, of the timestamps handed to generate_care_schedule *)
WateredAges == {Days(3) + 1, Days(15)}
CreatedAges == {Days(10), Days(100), Days(400)}
FertilizedAges == {Days(20), Days(100)}

Ago(t, age) == IF age = Missing THEN Missing ELSE t - age

(* Plant dicts handed to get_due_reminders alone: every watering age with  *)
(* fertilizing never done or long overdue ...                              *)
WateringSingles(t) ==
    [id : {1},
     nickname : {Nickname(1)},
     common_name : {"Snake Plant", "pothos", "Orchid"},
     last_watered : {Ago(t, a) : a \in {Missing, Days(3), Days(7), Days(7) + 1, Days(8),
                                        Days(9) + 1, Days(10), Days(12) + 1, Days(13),
                                        Days(15)}},
     created_at : {Ago(t, a) : a \in {Missing, Days(10)}},
     last_fertilized : {Ago(t, a) : a \in {None, Days(91)}}]

(* ... every fertilizing age for a plant watered three days ago ...        *)
FertilizingSingles(t) ==
    [id : {1},
     nickname : {Nickname(1)},
     common_name : {"Snake Plant", "pothos", "Orchid"},
     last_watered : {Ago(t, Days(3))},
     created_at : {Ago(t, Days(10))},
     last_fertilized : {Ago(t, a) : a \in {None, Days(20), Days(60), Days(67) + 1, Days(68),
                                           Days(90) + 1, Days(91)}}]

(* ... plants in care for longer than their repotting interval ...         *)
RepottingSingles(t) ==
    [id : {1},
     nickname : {Nickname(1)},
     common_name : {"Snake Plant", "Basil", "Orchid"},
     last_watered : {Ago(t, a) : a \in {Days(3), Days(15)}},
     created_at : {Ago(t, a) : a \in {Days(400), Days(800)}},
     last_fertilized : {Ago(t, a) : a \in {None, Days(91)}}]

SinglePlants(t) == WateringSingles(t) \cup FertilizingSingles(t) \cup RepottingSingles(t)

(* ... and in a collection of several *)
GroupPlants(t, id) ==
    [id : {id},
     nickname : {Nickname(id)},
     common_name : {"pothos"},
     last_watered : {Ago(t, a) : a \in {Days(3), Days(13)}},
     created_at : {Ago(t, Days(100))},
     last_fertilized : {Ago(t, a) : a \in {None, Days(68)}}]
    \cup
    [id : {id},
     nickname : {Nickname(id)},
     common_name : {"Orchid"},
     last_watered : {Ago(t, Days(13))},
     created_at : {Ago(t, Days(100))},
     last_fertilized : {None}]

(* tzinfo of the timestamps a caller hands over, per argument: TRUE for an *)
(* offset-aware datetime, FALSE for a naive one                            *)
Naive == [last_watered |-> FALSE, created_at |-> FALSE, last_fertilized |-> FALSE]
Aware == [last_watered |-> TRUE, created_at |-> TRUE, last_fertilized |-> TRUE]

TzInfos ==
    {Naive, Aware,
     [Naive EXCEPT !.last_watered = TRUE],
     [Naive EXCEPT !.last_fertilized = TRUE]}

(* Plant dicts with offset-aware timestamps: a known and an unknown plant, *)
(* each key present or absent                                              *)
AwarePlants(t) ==
    [id : {1},
     nickname : {Nickname(1)},
     common_name : {"Snake Plant", "Orchid"},
     last_watered : {Ago(t, a) : a \in {Missing, Days(3)}},
     created_at : {Ago(t, a) : a \in {Missing, Days(10)}},
     last_fertilized : {Ago(t, a) : a \in {None, Days(91)}}]

RECURSIVE PlantGroups(_, _)
(* The collections of exactly n plants, ids 1..n *)
PlantGroups(t, n) ==
    IF n = 0 THEN {<< >>}
    ELSE {Append(g, p) : g \in PlantGroups(t, n - 1), p \in GroupPlants(t, n)}

PlantCollections(t) ==
    {<< >>} \cup {<<p>> : p \in SinglePlants(t)}
    \cup UNION {PlantGroups(t, n) : n \in 2..MaxPlants}

AwareCollections(t) == {<< >>} \cup {<<p>> : p \in AwarePlants(t)}

-----------------------------------------------------------------------------
(* State machine: the engine's tables, the wall clock and the last call *)

Init ==
    /\ now \in StartInstants
    /\ care_data \in {LoadedCareData, EmptyCareData}
    /\ personality_data \in {LoadedPersonalityData, EmptyPersonalityData}
    /\ kaggle_data \in {LoadedKaggleData, EmptyKaggleData}
    /\ ret = [op |-> "none"]
    /\ db_users = << >>
    /\ db_user_plants = << >>
    /\ db_care_history = << >>
    /\ sms_queue = << >>

Idle == ret.op = "none"

(* The clock advances by one tick *)
Tick ==
    /\ Idle
    /\ \E s \in StartInstants : s <= now /\ now < s + MaxAdvance
    /\ now' = now + 1
    /\ UNCHANGED <<care_data, personality_data, kaggle_data, ret, db>>

(* Variant: a partial match in the open catalog is remembered under the   *)
(* name asked for                                                         *)
GetPlantCareInfo_Caching ==
    /\ Idle
    /\ \E plant_type \in LookupNames :
        /\ ret' = [op |-> "get_plant_care_info",
                   at |-> now,
                   plant_type |-> plant_type,
                   out |-> get_plant_care_info(care_data, kaggle_data, plant_type)]
        /\ kaggle_data' =
              IF Tier4Hits(kaggle_data, plant_type) # {}
              THEN DictSet(kaggle_data, Lower(plant_type),
                           kaggle_data[First(Tier4Hits(kaggle_data, plant_type))].plant)
              ELSE kaggle_data
        /\ UNCHANGED <<now, care_data, personality_data, db>>

GetPlantCareInfo ==
    /\ Idle
    /\ \E plant_type \in LookupNames :
        /\ ret' = [op |-> "get_plant_care_info",
                   at |-> now,
                   plant_type |-> plant_type,
                   out |-> get_plant_care_info(care_data, kaggle_data, plant_type)]
        /\ UNCHANGED <<now, care_data, personality_data, kaggle_data, db>>

GenerateCareSchedule ==
    /\ Idle
    /\ \E tz \in TzInfos :
       \E plant_type \in IF tz = Naive THEN PlantTypes ELSE {"Snake Plant", "Orchid"},
          w \in IF tz = Naive THEN WateredAges ELSE {Days(15)},
          c \in IF tz = Naive THEN CreatedAges ELSE {Days(10)},
          f \in IF tz = Naive THEN FertilizedAges \cup {None} ELSE {Days(100), None} :
        /\ ret' = [op |-> "generate_care_schedule",
                   at |-> now,
                   tz |-> tz,
                   plant_type |-> plant_type,
                   last_watered |-> now - w,
                   plant_added_date |-> now - c,
                   last_fertilized |-> Ago(now, f),
                   raised |-> GenerateRaised(tz.created_at),
                   out |-> IF GenerateRaised(tz.created_at) # "" THEN << >>
                           ELSE generate_care_schedule(care_data, kaggle_data, now, 1,
                                                       Nickname(1), plant_type,
                                                       now - w, now - c, Ago(now, f))]
        /\ UNCHANGED <<now, care_data, personality_data, kaggle_data, db>>

GetDueReminders ==
    /\ Idle
    /\ \E tz \in TzInfos :
       \E user_plants \in IF tz = Naive THEN PlantCollections(now) ELSE AwareCollections(now) :
        /\ ret' = [op |-> "get_due_reminders",
                   at |-> now,
                   tz |-> tz,
                   user_plants |-> user_plants,
                   raised |-> DueRemindersRaised(care_data, kaggle_data, user_plants, tz),
                   out |-> IF DueRemindersRaised(care_data, kaggle_data, user_plants, tz) # ""
                           THEN << >>
                           ELSE get_due_reminders(care_data, kaggle_data, now, user_plants)]
        /\ UNCHANGED <<now, care_data, personality_data, kaggle_data, db>>

GetSeasonalCareTips ==
    /\ Idle
    /\ \E season \in Seasons \cup {""} :
        /\ ret' = [op |-> "get_seasonal_care_tips",
                   at |-> now,
                   season |-> season,
                   out |-> get_seasonal_care_tips(care_data, now, season)]
        /\ UNCHANGED <<now, care_data, personality_data, kaggle_data, db>>

(* CareScheduleEngine(): the three loaders in turn, on the files as they   *)
(* are found.  An exception leaves the constructor and no engine is made;  *)
(* otherwise the new engine takes the place of the one in use.             *)
Construct ==
    /\ Idle
    /\ \E files \in [Sources -> FileStates] :
        LET care == _load_care_data(files["care"])
            personality == _load_personality_data(files["personality"])
            kaggle == _load_kaggle_data(files["kaggle"])
            raised == IF care.raised # "" THEN care.raised
                      ELSE IF personality.raised # "" THEN personality.raised
                      ELSE kaggle.raised
        IN  /\ ret' = [op |-> "__init__", at |-> now, files |-> files, raised |-> raised]
            /\ IF raised # ""
               THEN UNCHANGED <<care_data, personality_data, kaggle_data>>
               ELSE /\ care_data' = care.table
                    /\ personality_data' = personality.table
                    /\ kaggle_data' = kaggle.table
            /\ UNCHANGED <<now, db>>

(* The caller is done with the result *)
Return ==
    /\ ~Idle
    /\ ret' = [op |-> "none"]
    /\ UNCHANGED <<now, care_data, personality_data, kaggle_data, db>>

Next ==
    \/ Tick
    \/ Return
    \/ Construct
    \/ GetPlantCareInfo
    \/ GenerateCareSchedule
    \/ GetDueReminders
    \/ GetSeasonalCareTips

Spec == Init /\ [][Next]_vars

-----------------------------------------------------------------------------
(* The pure methods of the engine, called on their own *)

(* Watering descriptions: each phrase set alone, several sets at once, the *)
(* keywords the code adds to the documented ones, and no keyword at all    *)
WateringTexts ==
    {"Water only when dry",
     "Only water when soil is completely dry",
     "Must be dry, then keep moist",
     "Keep soil consistently moist",
     "Water frequently and regularly",
     "Must not be dry between watering",
     "Water when soil is half dry",
     "Change water regularly in the cup",
     "Change water in the vase",
     "Normal watering, change water monthly",
     "Keep wet",
     "Moderate watering in a vase",
     "Can dry between watering",
     "Water weekly",
     ""}

Categories ==
    {"", "Fern", "FERN", "Cactus And Succulent", "Cactus", "Hanging", "Bromeliad",
     "Succulent fern"}

(* Ages of a plant, in ticks before the call; -1 is a date still to come *)
OwnedAges ==
    {-1, 0, Days(1), Days(27), Days(28) - 1, Days(28), Days(28) + 1, Days(100),
     Days(364), Days(365) - 1, Days(365), Days(365) + 1, Days(400)}

ParseWateringFrequency ==
    /\ Idle
    /\ \E watering_text \in WateringTexts, category \in Categories :
        /\ ret' = [op |-> "parse_watering_frequency_from_text",
                   at |-> now,
                   watering_text |-> watering_text,
                   category |-> category,
                   out |-> parse_watering_frequency_from_text(watering_text, category)]
        /\ UNCHANGED <<now, care_data, personality_data, kaggle_data, db>>

DetermineGrowthStage ==
    /\ Idle
    /\ \E age \in OwnedAges :
        /\ ret' = [op |-> "determine_growth_stage",
                   at |-> now,
                   plant_added_date |-> now - age,
                   out |-> determine_growth_stage(now, now - age)]
        /\ UNCHANGED <<now, care_data, personality_data, kaggle_data, db>>

FunctionNext ==
    \/ Return
    \/ ParseWateringFrequency
    \/ DetermineGrowthStage

FunctionSpec == Init /\ [][FunctionNext]_vars

-----------------------------------------------------------------------------
(* SMSProcessor *)

IsDigit(c) == c \in {"0", "1", "2", "3", "4", "5", "6", "7", "8", "9"}

RECURSIVE Digits(_)
(* re.sub(r'\D', '', s) *)
Digits(s) ==
    IF Len(s) = 0 THEN ""
    ELSE (IF IsDigit(CharAt(s, 1)) THEN CharAt(s, 1) ELSE "") \o Digits(SubSeq(s, 2, Len(s)))

(* The length of the first token of a text that starts with one *)
TokenLength(s) ==
    LET blanks == {i \in 1..Len(s) : CharAt(s, i) = " "}
    IN  IF blanks = {} THEN Len(s) ELSE First(blanks) - 1

RECURSIVE SplitStripped(_)
SplitStripped(s) ==
    IF Len(s) = 0 THEN << >>
    ELSE <<SubSeq(s, 1, TokenLength(s))>>
         \o SplitStripped(StripLeft(SubSeq(s, TokenLength(s) + 1, Len(s))))

(* str.split(): the tokens between runs of blanks *)
Split(s) == SplitStripped(StripLeft(s))

(* self.care_actions, in declaration order *)
care_actions ==
    << <<"watered", "watering">>,
       <<"fertilized", "fertilizing">>,
       <<"repotted", "repotting">>,
       <<"misted", "misting">>,
       <<"pruned", "pruning">> >>

(* care_variations, in declaration order *)
care_variations ==
    << <<"water", "watering">>,
       <<"fed", "fertilizing">>,
       <<"feed", "fertilizing">>,
       <<"repot", "repotting">>,
       <<"mist", "misting">>,
       <<"spray", "misting">>,
       <<"trim", "pruning">>,
       <<"cut", "pruning">> >>

(* The entries of a keyword table whose keyword occurs in the message *)
KeywordHits(table, message_lower) ==
    {i \in 1..Len(table) : Contains(message_lower, table[i][1])}

(* Variant: the variations are looked for before the care actions *)
DetectIn_VariationsFirst(hits, variation_hits) ==
    IF variation_hits # {} THEN <<care_variations[First(variation_hits)][2]>>
    ELSE IF hits # {} THEN <<care_actions[First(hits)][2]>>
    ELSE << >>

(* The two loops, given the entries that hit: the first hit returns *)
DetectIn(hits, variation_hits) ==
    IF hits # {} THEN <<care_actions[First(hits)][2]>>
    ELSE IF variation_hits # {} THEN <<care_variations[First(variation_hits)][2]>>
    ELSE << >>

DetectLowered(message_lower) ==
    DetectIn(KeywordHits(care_actions, message_lower),
             KeywordHits(care_variations, message_lower))

(* Optional[str]: << >> is None, <<action>> a care type *)
detect_care_action(message) == DetectLowered(Strip(Lower(message)))

(* db.query(User).filter(User.phone == phone).first(); phone is unique *)
UserByPhone(users, phone) ==
    LET found == {i \in 1..Len(users) : users[i].phone = phone}
    IN  IF found = {} THEN << >> ELSE <<users[First(found)]>>

(* The number that finds a user, given the cleaned number: as received,     *)
(* cleaned, with +1 in front of ten digits, without the 1 in front of eleven *)
FindUser(users, phone_number, clean_phone) ==
    IF UserByPhone(users, phone_number) # << >> THEN UserByPhone(users, phone_number)
    ELSE IF UserByPhone(users, clean_phone) # << >> THEN UserByPhone(users, clean_phone)
    ELSE IF Len(clean_phone) = 10 /\ UserByPhone(users, "+1" \o clean_phone) # << >>
    THEN UserByPhone(users, "+1" \o clean_phone)
    ELSE IF Len(clean_phone) = 11 /\ CharAt(clean_phone, 1) = "1"
    THEN UserByPhone(users, SubSeq(clean_phone, 2, 11))
    ELSE << >>

(* Optional[User]: << >> is None *)
find_user_by_phone(users, phone_number) == FindUser(users, phone_number, Digits(phone_number))

(* The rows get_user_plants selects: the active plants of the user *)
ActivePlants(rows, user_id) ==
    {i \in 1..Len(rows) : rows[i].user_id = user_id /\ rows[i].is_active}

(* The orders a query without ORDER BY may return the selected rows in *)
Orderings(S) ==
    {order \in [1..Cardinality(S) -> S] :
        \A i, j \in 1..Cardinality(S) : i # j => order[i] # order[j]}

(* A UserPlant object as a closed session leaves it: the columns are loaded, *)
(* the plant_catalog relationship is not                                     *)
Detached(row) ==
    [id |-> row.id, nickname |-> row.nickname, plant_catalog |-> << >>]

(* A UserPlant object whose plant_catalog is loaded *)
Attached(row) ==
    [id |-> row.id, nickname |-> row.nickname, plant_catalog |-> <<[name |-> row.catalog_name]>>]

(* get_user_plants: the lists it may return *)
get_user_plants(rows, user) ==
    {[i \in 1..Len(order) |-> Detached(rows[order[i]])] :
        order \in Orderings(ActivePlants(rows, user.id))}

(* "Exact match": the plants whose nickname occurs in the message *)
NicknameHits(message_lower, user_plants) ==
    {i \in 1..Len(user_plants) : Contains(message_lower, Lower(user_plants[i].nickname))}

(* "Plant type matches": the plants at which the second loop stops, by a    *)
(* catalog name that occurs in the message or by a relationship it cannot   *)
(* load                                                                     *)
PlantTypeHits(message_lower, user_plants) ==
    {i \in 1..Len(user_plants) :
        \/ user_plants[i].plant_catalog = << >>
        \/ Contains(message_lower, Lower(user_plants[i].plant_catalog[1].name))}

WordsOverlap(message_words, nickname_words) ==
    \E m \in 1..Len(message_words), n \in 1..Len(nickname_words) :
        /\ Len(message_words[m]) >= 3
        /\ Len(nickname_words[n]) >= 3
        /\ \/ Contains(nickname_words[n], message_words[m])
           \/ Contains(message_words[m], nickname_words[n])

(* "Partial matches": the plants a word of whose nickname overlaps a word  *)
(* of the message                                                          *)
PartialHits(message_words, user_plants) ==
    {i \in 1..Len(user_plants) :
        WordsOverlap(message_words, Split(Lower(user_plants[i].nickname)))}

Returned(value) == [raised |-> "", value |-> value]
Raised(exception) == [raised |-> exception, value |-> << >>]

(* Variant: the plant types are looked for before the nicknames *)
ExtractFrom_PlantTypeFirst(user_plants, nickname_hits, plant_type_hits, partial_hits) ==
    IF plant_type_hits # {}
    THEN IF user_plants[First(plant_type_hits)].plant_catalog = << >>
         THEN Raised("DetachedInstanceError")
         ELSE Returned(<<user_plants[First(plant_type_hits)].nickname>>)
    ELSE IF nickname_hits # {} THEN Returned(<<user_plants[First(nickname_hits)].nickname>>)
    ELSE IF partial_hits # {} THEN Returned(<<user_plants[First(partial_hits)].nickname>>)
    ELSE Returned(<< >>)

(* The three loops, given the plants each stops at: the first one returns *)
ExtractFrom(user_plants, nickname_hits, plant_type_hits, partial_hits) ==
    IF nickname_hits # {} THEN Returned(<<user_plants[First(nickname_hits)].nickname>>)
    ELSE IF plant_type_hits # {}
    THEN IF user_plants[First(plant_type_hits)].plant_catalog = << >>
         THEN Raised("DetachedInstanceError")
         ELSE Returned(<<user_plants[First(plant_type_hits)].nickname>>)
    ELSE IF partial_hits # {} THEN Returned(<<user_plants[First(partial_hits)].nickname>>)
    ELSE Returned(<< >>)

ExtractLowered(message_lower, user_plants) ==
    ExtractFrom(user_plants,
                NicknameHits(message_lower, user_plants),
                PlantTypeHits(message_lower, user_plants),
                PartialHits(Split(message_lower), user_plants))

(* Optional[str] in value, or the exception that leaves the method *)
extract_plant_name(message, user_plants) == ExtractLowered(Strip(Lower(message)), user_plants)

(* The rows the query of record_care_action selects *)
MatchingPlants(rows, user_id, plant_nickname) ==
    {i \in 1..Len(rows) :
        /\ rows[i].user_id = user_id
        /\ rows[i].nickname = plant_nickname
        /\ rows[i].is_active}

(* Variant: every care sets both dates *)
CareRecorded_BothDates(rows, i, care_type, t) ==
    [rows EXCEPT ![i] = [@ EXCEPT !.last_watered = t, !.last_fertilized = t]]

(* Variant: the care is written to the history only *)
CareRecorded_HistoryOnly(rows, i, care_type, t) == rows

(* "Update plant's last care date" on row i *)
CareRecorded(rows, i, care_type, t) ==
    [rows EXCEPT ![i] =
        IF care_type = "watering" THEN [@ EXCEPT !.last_watered = t]
        ELSE IF care_type = "fertilizing" THEN [@ EXCEPT !.last_fertilized = t]
        ELSE @]

CareHistoryRow(user_plant_id, care_type, t) ==
    [user_plant_id |-> user_plant_id,
     task_type |-> care_type,
     completed_at |-> t,
     method |-> "sms"]

(* The tables after record_care_action and what it returns.  plant is the  *)
(* row .first() yields, 0 for none; a commit that fails is rolled back.    *)
record_care_action(rows, history, t, plant, care_type, commit_fails) ==
    IF plant = 0 \/ commit_fails
    THEN [success |-> FALSE, rows |-> rows, history |-> history]
    ELSE [success |-> TRUE,
          rows |-> CareRecorded(rows, plant, care_type, t),
          history |-> Append(history, CareHistoryRow(rows[plant].id, care_type, t))]

(* The rows .first() may yield for a query *)
FirstOf(matching) == IF matching = {} THEN {0} ELSE matching

(* getattr on a mapped object: the class User maps id and phone (with       *)
(* columns this model leaves out); phone_verified is not among its columns. *)
HasAttribute(object, name) == name \in DOMAIN object

(* send_care_reminder_sms.delay(...) of _send_contact_card *)
ContactCard(user) ==
    [user_phone |-> user.phone,
     plant_name |-> "PlantTexts Team",
     care_type |-> "contact_card",
     urgency |-> "low"]

(* The result dict of process_sms_message, or the exception that leaves it *)
SmsResult(status, user, plant_name, care_action) ==
    [raised |-> "",
     status |-> status,
     user_id |-> IF user = << >> THEN None ELSE user[1].id,
     plant_name |-> plant_name,
     care_action |-> care_action]

SmsRaised(exception) ==
    [raised |-> exception, status |-> "", user_id |-> None,
     plant_name |-> << >>, care_action |-> << >>]

Unchanged(result, rows, history, queue) ==
    [result |-> result, rows |-> rows, history |-> history, queue |-> queue]

(* "Check if this is a verification response": verify_phone looks the user *)
(* up by the number as received, and queues the contact card               *)
Verification(users, rows, history, queue, user, phone_number) ==
    IF UserByPhone(users, phone_number) # << >>
    THEN [result |-> SmsResult("phone_verified", user, << >>, << >>),
          rows |-> rows, history |-> history,
          queue |-> Append(queue, ContactCard(UserByPhone(users, phone_number)[1]))]
    ELSE Unchanged(SmsResult("verification_failed", user, << >>, << >>), rows, history, queue)

(* "Record care action" *)
Recording(rows, history, queue, t, user, plant_name, care_action, recorded) ==
    [result |-> SmsResult(IF recorded.success THEN "success" ELSE "recording_failed",
                          user, <<plant_name>>, care_action),
     rows |-> recorded.rows, history |-> recorded.history, queue |-> queue]

(* "Extract plant name", given what extract_plant_name came back with *)
Resolving(rows, history, queue, t, user, user_plants, care_action, extracted, plant, commit_fails) ==
    IF extracted.raised # "" THEN Unchanged(SmsRaised(extracted.raised), rows, history, queue)
    ELSE IF extracted.value = << >> /\ Len(user_plants) # 1
    THEN Unchanged(SmsResult("plant_not_identified", user, << >>, care_action),
                   rows, history, queue)
    ELSE Recording(rows, history, queue, t, user,
                   IF extracted.value = << >> THEN user_plants[1].nickname
                   ELSE extracted.value[1],
                   care_action,
                   record_care_action(rows, history, t, plant, care_action[1], commit_fails))

(* The nickname process_sms_message goes on with, "" when it has none *)
ResolvedNickname(user_plants, extracted) ==
    IF extracted.raised # "" THEN ""
    ELSE IF extracted.value # << >> THEN extracted.value[1]
    ELSE IF Len(user_plants) = 1 THEN user_plants[1].nickname
    ELSE ""

(* "Get user's plants" and "Detect care action" *)
Interpreting(rows, history, queue, t, user, user_plants, message_body, care_action, plant, commit_fails) ==
    IF Len(user_plants) = 0
    THEN Unchanged(SmsResult("no_plants", user, << >>, << >>), rows, history, queue)
    ELSE IF care_action = << >>
    THEN Unchanged(SmsResult("no_action_detected", user, << >>, << >>), rows, history, queue)
    ELSE Resolving(rows, history, queue, t, user, user_plants, care_action,
                   extract_plant_name(message_body, user_plants), plant, commit_fails)

(* process_sms_message, given the user found, the list get_user_plants     *)
(* returned, the row record_care_action finds and whether its commit fails *)
process_sms_message(users, rows, history, queue, t, user, phone_number, message_body, user_plants, plant, commit_fails) ==
    IF user = << >>
    THEN Unchanged(SmsResult("user_not_found", user, << >>, << >>), rows, history, queue)
    ELSE IF ~HasAttribute(user[1], "phone_verified")
    THEN Unchanged(SmsRaised("AttributeError"), rows, history, queue)
    ELSE IF ~user[1].phone_verified
    THEN Verification(users, rows, history, queue, user, phone_number)
    ELSE Interpreting(rows, history, queue, t, user, user_plants, message_body,
                      detect_care_action(message_body), plant, commit_fails)

-----------------------------------------------------------------------------
(* The SMS processor on a database of users and plants *)

(* users: the mapped columns the processor reads *)
SeedUsers ==
    << [id |-> 1, phone |-> "+15551230001"],
       [id |-> 2, phone |-> "5551230002"],
       [id |-> 3, phone |-> "5551230003"] >>

PlantRow(id, user_id, nickname, catalog_name, is_active, created_at, last_watered) ==
    [id |-> id, user_id |-> user_id, nickname |-> nickname, catalog_name |-> catalog_name,
     is_active |-> is_active, created_at |-> created_at,
     last_watered |-> last_watered, last_fertilized |-> None]

(* The instant the database is seeded at: 16 Jan of year 2 *)
SeedInstant == Days(730 + 15)

(* user_plants joined with plants_catalog: user 1 has two active plants and *)
(* one given away, user 2 a single plant, user 3 none.  Fernando and Drama  *)
(* Queen were last watered 20 and 3 days before, the others never.          *)
SeedUserPlants ==
    << PlantRow(1, 1, "Fernando", "Boston Fern", TRUE,
                SeedInstant - Days(400), SeedInstant - Days(20)),
       PlantRow(2, 1, "Old Ivy", "English Ivy", FALSE, SeedInstant - Days(100), None),
       PlantRow(3, 1, "Sammy", "Snake Plant", TRUE, SeedInstant - Days(100), None),
       PlantRow(4, 2, "Drama Queen", "Basil", TRUE,
                SeedInstant - Days(10), SeedInstant - Days(3)) >>

PhoneNumbers ==
    {"+15551230001", "5551230001", "(555) 123-0002", "+15551230002", "5551230003",
     "+15559990000"}

Messages ==
    {"I just fertilized my ficus",
     "I watered Fernando",
     "Fed it, then pruned Sammy",
     "pruned and watered Sammy",
     "Gave water and misted the queen",
     "Watered Fernando and Sammy",
     "watered the snake plant, not Fernando",
     "just fed my plant",
     "watered it",
     "I will feed Sam",
     "Time to repot Fernando",
     "  SPRAYED THE FERN  ",
     "cut back the ivy",
     "Fernando looks sad",
     "Hello there",
     ""}

Nicknames == {"Fernando", "Sammy", "Drama Queen", "Old Ivy", "Nobody"}
CareTypes == {"watering", "fertilizing", "pruning"}

(* The care history is capped at this many records *)
MaxHistory == 1

SmsInit ==
    /\ now = SeedInstant
    /\ care_data = LoadedCareData
    /\ personality_data = LoadedPersonalityData
    /\ kaggle_data = LoadedKaggleData
    /\ ret = [op |-> "none"]
    /\ db_users = SeedUsers
    /\ db_user_plants = SeedUserPlants
    /\ db_care_history = << >>
    /\ sms_queue = << >>

DetectCareAction ==
    /\ Idle
    /\ \E message \in Messages :
        /\ ret' = [op |-> "detect_care_action",
                   message |-> message,
                   out |-> detect_care_action(message)]
        /\ UNCHANGED <<now, care_data, personality_data, kaggle_data, db>>

(* The lists extract_plant_name is handed: the active plants of a user in   *)
(* any order, as get_user_plants returns them or with plant_catalog loaded  *)
PlantLists(rows, user) ==
    get_user_plants(rows, user)
    \cup {[i \in 1..Len(order) |-> Attached(rows[order[i]])] :
            order \in Orderings(ActivePlants(rows, user.id))}

ExtractPlantName ==
    /\ Idle
    /\ \E message \in Messages, u \in 1..Len(db_users) :
       \E user_plants \in PlantLists(db_user_plants, db_users[u]) :
        /\ ret' = [op |-> "extract_plant_name",
                   message |-> message,
                   user_plants |-> user_plants,
                   out |-> extract_plant_name(message, user_plants)]
        /\ UNCHANGED <<now, care_data, personality_data, kaggle_data, db>>

RecordCareAction ==
    /\ Idle
    /\ Len(db_care_history) < MaxHistory
    /\ \E u \in 1..Len(db_users), plant_nickname \in Nicknames, care_type \in CareTypes,
          commit_fails \in BOOLEAN :
       \E plant \in FirstOf(MatchingPlants(db_user_plants, db_users[u].id, plant_nickname)) :
        LET done == record_care_action(db_user_plants, db_care_history, now, plant,
                                       care_type, commit_fails)
        IN  /\ ret' = [op |-> "record_care_action",
                       at |-> now,
                       user_id |-> db_users[u].id,
                       plant_nickname |-> plant_nickname,
                       care_type |-> care_type,
                       out |-> done.success]
            /\ db_user_plants' = done.rows
            /\ db_care_history' = done.history
            /\ UNCHANGED <<now, care_data, personality_data, kaggle_data, db_users, sms_queue>>

(* The row record_care_action would find for the nickname the message      *)
(* resolves to                                                             *)
RecordedPlant(rows, user, user_plants, extracted) ==
    FirstOf(MatchingPlants(rows, user.id, ResolvedNickname(user_plants, extracted)))

ProcessSmsMessage ==
    /\ Idle
    /\ \E phone_number \in PhoneNumbers, message_body \in Messages, commit_fails \in BOOLEAN :
        LET user == find_user_by_phone(db_users, phone_number)
            verified == /\ user # << >>
                        /\ HasAttribute(user[1], "phone_verified")
                        /\ user[1].phone_verified
        IN  \E user_plants \in
                  IF verified THEN get_user_plants(db_user_plants, user[1]) ELSE {<< >>} :
            \E plant \in
                  IF verified
                  THEN RecordedPlant(db_user_plants, user[1], user_plants,
                                     extract_plant_name(message_body, user_plants))
                  ELSE {0} :
                LET done == process_sms_message(db_users, db_user_plants, db_care_history,
                                                sms_queue, now, user, phone_number,
                                                message_body, user_plants, plant, commit_fails)
                IN  /\ Len(done.history) <= MaxHistory
                    /\ ret' = [op |-> "process_sms_message",
                               at |-> now,
                               phone_number |-> phone_number,
                               message_body |-> message_body,
                               out |-> done.result]
                    /\ db_user_plants' = done.rows
                    /\ db_care_history' = done.history
                    /\ sms_queue' = done.queue
                    /\ UNCHANGED <<now, care_data, personality_data, kaggle_data, db_users>>

SmsNext ==
    \/ Return
    \/ DetectCareAction
    \/ ExtractPlantName
    \/ RecordCareAction
    \/ ProcessSmsMessage

SmsSpec == SmsInit /\ [][SmsNext]_vars

-----------------------------------------------------------------------------
(* The care schedule of a user's plants, recomputed from the database *)

(* "Convert user plants to format expected by scheduler": the plant dict   *)
(* of a row, a last_watered of None replaced by the caller's default       *)
SchedulerFormat(row, default_last_watered) ==
    [id |-> row.id,
     nickname |-> row.nickname,
     common_name |-> row.catalog_name,
     last_watered |-> IF row.last_watered = None THEN default_last_watered
                      ELSE row.last_watered,
     created_at |-> row.created_at,
     last_fertilized |-> row.last_fertilized]

(* The plant dicts of a user's rows, in the order of the table.  The      *)
(* order decides the order of the schedules in the response and nothing  *)
(* else: the reminders are sorted by due date.                           *)
UserPlantData(rows, user_id, t) ==
    LET mine == SelectSeq(rows, LAMBDA row : row.user_id = user_id)
    IN  [i \in 1..Len(mine) |-> SchedulerFormat(mine[i], t)]

(* The schedule dict of the response *)
ScheduleData(schedule) ==
    [plant_id |-> schedule.plant_id,
     plant_name |-> schedule.plant_name,
     next_watering |-> schedule.next_watering,
     next_fertilizing |-> schedule.next_fertilizing,
     next_repotting |-> schedule.next_repotting,
     watering_frequency_days |-> schedule.watering_frequency_days,
     growth_stage |-> schedule.growth_stage,
     personality_type |-> schedule.personality_type]

CareScheduleResponse(user_id, schedules, due_reminders, seasonal_tips) ==
    [raised |-> "",
     user_id |-> user_id,
     schedules |-> schedules,
     due_reminders |-> due_reminders,
     seasonal_tips |-> seasonal_tips]

(* GET /users/{user_id}/care-schedule, given the plant dicts in the order  *)
(* the query returned the rows and whether the database hands out          *)
(* offset-aware datetimes (PostgreSQL) or naive ones (SQLite)              *)
get_user_care_schedule(users, plants, kaggle, t, user_id, plant_data, aware) ==
    IF \A u \in 1..Len(users) : users[u].id # user_id
    THEN [raised |-> "HTTPException", status_code |-> 404]
    ELSE IF Len(plant_data) = 0
    THEN CareScheduleResponse(user_id, << >>, << >>, << >>)
    ELSE IF GenerateRaised(aware) # ""
    THEN [raised |-> GenerateRaised(aware), status_code |-> 500]
    ELSE CareScheduleResponse(
             user_id,
             [i \in 1..Len(plant_data) |->
                 ScheduleData(ScheduleOf(plants, kaggle, t, plant_data[i]))],
             get_due_reminders(plants, kaggle, t, plant_data),
             get_seasonal_care_tips(plants, t, ""))

UserIds == {1, 2, 3, 9}

(* The clock runs for this many ticks after the database was seeded *)
MaxElapsed == 3

GetUserCareSchedule ==
    /\ Idle
    /\ \E user_id \in UserIds, aware \in BOOLEAN :
        /\ ret' = [op |-> "get_user_care_schedule",
                   at |-> now,
                   user_id |-> user_id,
                   out |-> get_user_care_schedule(
                               db_users, care_data, kaggle_data, now, user_id,
                               UserPlantData(db_user_plants, user_id, now),
                               aware)]
        /\ UNCHANGED <<now, care_data, personality_data, kaggle_data, db>>

(* The clock advances by one tick *)
Elapse ==
    /\ Idle
    /\ now < SeedInstant + MaxElapsed
    /\ now' = now + 1
    /\ UNCHANGED <<care_data, personality_data, kaggle_data, ret, db>>

CareNext ==
    \/ Elapse
    \/ Return
    \/ RecordCareAction
    \/ GetUserCareSchedule

CareSpec == SmsInit /\ [][CareNext]_vars

-----------------------------------------------------------------------------
(* The reminder task: the due reminders of a user's plants, handed to the  *)
(* SMS task                                                                *)

(* "Convert plants to scheduler format": the dicts of the user's active    *)
(* rows, in the order of the table; a plant never watered counts as        *)
(* watered 30 days before the check                                        *)
ActivePlantData(rows, user_id, t) ==
    LET mine == SelectSeq(rows, LAMBDA row : row.user_id = user_id /\ row.is_active)
    IN  [i \in 1..Len(mine) |-> SchedulerFormat(mine[i], t - Days(30))]

(* Variant: every due reminder is sent, whatever its urgency *)
RemindersToSend_All(due_reminders) == due_reminders

(* "Only send if urgency is medium or higher" *)
RemindersToSend(due_reminders) ==
    SelectSeq(due_reminders, LAMBDA reminder : reminder.urgency \in {"medium", "high", "critical"})

(* The keyword arguments of one send_care_reminder_sms.delay call; the     *)
(* message is the text rendered for the same reminder                      *)
ReminderSms(user, reminder) ==
    [user_phone |-> user.phone,
     plant_name |-> reminder.plant_name,
     care_type |-> reminder.care_type,
     urgency |-> reminder.urgency]

RECURSIVE ScheduleSms(_, _, _, _)
(* "Schedule SMS for each reminder", from the k-th on: the calls of delay  *)
(* that went through, in the order they were made.  A call that raises     *)
(* (failing holds its index) is logged and the loop continues.             *)
ScheduleSms(user, reminders_to_send, failing, k) ==
    IF k > Len(reminders_to_send) THEN << >>
    ELSE (IF k \in failing THEN << >> ELSE <<ReminderSms(user, reminders_to_send[k])>>)
         \o ScheduleSms(user, reminders_to_send, failing, k + 1)

(* What one run of the task leaves behind: the exception that left it, ""  *)
(* for none, the fields of its result, the reminders the engine returned   *)
(* and the messages handed to the SMS task                                 *)
CheckResult(raised, status, plants_checked, due_reminders, sms) ==
    [raised |-> raised,
     status |-> status,
     plants_checked |-> plants_checked,
     reminders_found |-> Len(due_reminders),
     sms_scheduled |-> Len(sms),
     due_reminders |-> due_reminders,
     sms |-> sms]

(* check_user_plants_for_care, given whether the database hands out        *)
(* offset-aware datetimes and which calls of delay raise.  An exception    *)
(* of the engine reaches the handler of the task, which raises through     *)
(* self.retry; it is named by its cause.                                   *)
check_user_plants_for_care(users, rows, plants, kaggle, t, user_id, aware, failing) ==
    LET found == {u \in 1..Len(users) : users[u].id = user_id}
        plant_data == ActivePlantData(rows, user_id, t)
        due_reminders == get_due_reminders(plants, kaggle, t, plant_data)
    IN  IF found = {} THEN CheckResult("", "user_not_found", 0, << >>, << >>)
        ELSE IF Len(plant_data) = 0 THEN CheckResult("", "no_plants", 0, << >>, << >>)
        ELSE IF GenerateRaised(aware) # ""
        THEN CheckResult(GenerateRaised(aware), "", 0, << >>, << >>)
        ELSE CheckResult("", "completed", Len(plant_data), due_reminders,
                         ScheduleSms(users[First(found)], RemindersToSend(due_reminders),
                                     failing, 1))

(* The number of calls of delay a run makes *)
DelayCalls(users, rows, plants, kaggle, t, user_id, aware) ==
    IF \/ \A u \in 1..Len(users) : users[u].id # user_id
       \/ GenerateRaised(aware) # ""
    THEN 0
    ELSE Len(RemindersToSend(get_due_reminders(plants, kaggle, t,
                                               ActivePlantData(rows, user_id, t))))

(* A row of the seed with other care dates, given as ages at SeedInstant *)
CaredFor(row, watered_age, fertilized_age) ==
    [row EXCEPT !.last_watered = Ago(SeedInstant, watered_age),
                !.last_fertilized = Ago(SeedInstant, fertilized_age)]

(* Fernando is watered every 5 days in winter and fertilized every 45:     *)
(* watering not yet due, due for half a day, for 1, 4 and 15 days;         *)
(* fertilizing never done, not yet due, 5 days, 7 and a half, 8 and 35     *)
(* days overdue                                                            *)
FernandoWatered == {Days(3), Days(5) + 1, Days(6), Days(9), Days(20)}
FernandoFertilized == {None, Days(50), Days(52) + 1, Days(53), Days(80)}

(* Drama Queen is watered daily: due at this instant, and two days overdue *)
DramaQueenWatered == {Days(1), Days(3)}

(* The seed with the care dates varied.  Sammy, never watered, was last    *)
(* fertilized 70 days before: every 60 days, so 10 days overdue.           *)
ReminderTables ==
    {<< CaredFor(SeedUserPlants[1], w, f),
        SeedUserPlants[2],
        CaredFor(SeedUserPlants[3], None, Days(70)),
        CaredFor(SeedUserPlants[4], q, None) >> :
       w \in FernandoWatered, f \in FernandoFertilized, q \in DramaQueenWatered}

(* A check starts with at most this many messages waiting for the SMS task *)
MaxPending == 0

ReminderInit ==
    /\ now = SeedInstant
    /\ care_data = LoadedCareData
    /\ personality_data = LoadedPersonalityData
    /\ kaggle_data = LoadedKaggleData
    /\ ret = [op |-> "none"]
    /\ db_users = SeedUsers
    /\ db_user_plants \in ReminderTables
    /\ db_care_history = << >>
    /\ sms_queue = << >>

CheckUserPlantsForCare ==
    /\ Idle
    /\ Len(sms_queue) <= MaxPending
    /\ \E user_id \in UserIds, aware \in BOOLEAN :
       \E failing \in SUBSET (1..DelayCalls(db_users, db_user_plants, care_data, kaggle_data,
                                            now, user_id, aware)) :
        LET done == check_user_plants_for_care(db_users, db_user_plants, care_data,
                                               kaggle_data, now, user_id, aware, failing)
        IN  /\ ret' = [op |-> "check_user_plants_for_care",
                       at |-> now,
                       user_id |-> user_id,
                       failing |-> failing,
                       out |-> done]
            /\ sms_queue' = sms_queue \o done.sms
            /\ UNCHANGED <<now, care_data, personality_data, kaggle_data,
                           db_users, db_user_plants, db_care_history>>

(* A worker takes the oldest message and runs send_care_reminder_sms on    *)
(* it, whatever the caller of the check is doing                           *)
SendCareReminderSms ==
    /\ sms_queue # << >>
    /\ sms_queue' = Tail(sms_queue)
    /\ UNCHANGED <<now, care_data, personality_data, kaggle_data, ret,
                   db_users, db_user_plants, db_care_history>>

ReminderNext ==
    \/ Return
    \/ CheckUserPlantsForCare
    \/ SendCareReminderSms

ReminderSpec == ReminderInit /\ [][ReminderNext]_vars

-----------------------------------------------------------------------------
(* Properties *)

Generated == ret.op = "generate_care_schedule" /\ ret.raised = ""
Reminded == ret.op = "get_due_reminders" /\ ret.raised = ""
LookedUp == ret.op = "get_plant_care_info"

(* The profile the engine resolves the species of the last call to *)
ResolvedInfo == get_plant_care_info(care_data, kaggle_data, ret.plant_type)

(* No tier of the lookup matches the name *)
NoTierMatches(plant_type) ==
    /\ Tier1Hits(care_data, plant_type) = {}
    /\ Tier2Hits(care_data, plant_type) = {}
    /\ Tier3Hits(kaggle_data, plant_type) = {}
    /\ Tier4Hits(kaggle_data, plant_type) = {}

(* C1: for every resolved or default profile with base frequency >= 1 and   *)
(* positive multipliers, in every season and growth stage, the schedule's  *)
(* watering_frequency_days is at least 1.                                  *)
C1_FrequencyAtLeastOne ==
    Generated =>
        LET info == ResolvedInfo
            valid == \/ Len(info) = 0
                     \/ /\ GetOr(info[1].frequency_days, 7) >= 1
                        /\ \A s \in Seasons : GetOr(info[1].seasonal[s], 10) > 0
                        /\ \A g \in GrowthStages : GetOr(info[1].growth[g], 10) > 0
        IN  valid => ret.out.watering_frequency_days >= 1

(* C2: every reminder get_due_reminders returns has a due date that is not *)
(* later than the instant of the call.                                     *)
C2_NoFutureReminder ==
    Reminded => \A i \in 1..Len(ret.out) : ret.out[i].due_date <= ret.at

(* A call that returned a reminder and left out a watering that is not due yet *)
C2_Witness ==
    /\ Reminded
    /\ Len(ret.out) >= 1
    /\ \E i \in 1..Len(ret.user_plants) :
          ScheduleOf(care_data, kaggle_data, ret.at, ret.user_plants[i]).next_watering > ret.at

(* C4: the urgency of every reminder follows the bands of its care type:   *)
(* watering 0 low, 1..2 medium, 3..5 high, more critical; fertilizing up   *)
(* to 7 low, 8..30 medium, more high.                                      *)
C4_UrgencyBands ==
    Reminded =>
        \A i \in 1..Len(ret.out) :
            LET r == ret.out[i]
                days_overdue == WholeDays(ret.at - r.due_date)
            IN  /\ r.care_type = "watering" =>
                     /\ days_overdue = 0 => r.urgency = "low"
                     /\ days_overdue \in 1..2 => r.urgency = "medium"
                     /\ days_overdue \in 3..5 => r.urgency = "high"
                     /\ days_overdue > 5 => r.urgency = "critical"
                /\ r.care_type = "fertilizing" =>
                     /\ days_overdue <= 7 => r.urgency = "low"
                     /\ days_overdue \in 8..30 => r.urgency = "medium"
                     /\ days_overdue > 30 => r.urgency = "high"
                     /\ r.urgency # "critical"

(* A call that returned a watering reminder two whole days overdue and a   *)
(* fertilizing reminder more than thirty days overdue                      *)
C4_Witness ==
    /\ Reminded
    /\ \E i \in 1..Len(ret.out) :
          /\ ret.out[i].care_type = "watering"
          /\ WholeDays(ret.at - ret.out[i].due_date) = 2
          /\ ret.at - ret.out[i].due_date > Days(2)
    /\ \E i \in 1..Len(ret.out) :
          /\ ret.out[i].care_type = "fertilizing"
          /\ WholeDays(ret.at - ret.out[i].due_date) > 30

(* C5: the list get_due_reminders returns is in ascending order of due     *)
(* date and holds exactly the reminders the loop generated.                *)
C5_SortedPermutation ==
    Reminded =>
        LET generated == CollectReminders(care_data, kaggle_data, ret.at, ret.user_plants)
        IN  /\ \A i \in 1..(Len(ret.out) - 1) : ret.out[i].due_date <= ret.out[i + 1].due_date
            /\ Len(ret.out) = Len(generated)
            /\ \A i \in 1..Len(generated) :
                  Cardinality({j \in 1..Len(ret.out) : ret.out[j] = generated[i]})
                  = Cardinality({j \in 1..Len(generated) : generated[j] = generated[i]})

(* A call over several plants whose reminders were generated out of order *)
C5_Witness ==
    /\ Reminded
    /\ Len(ret.user_plants) >= 2
    /\ \E i \in 1..(Len(ret.out) - 1) : ret.out[i].plant_id > ret.out[i + 1].plant_id
    /\ ret.out # CollectReminders(care_data, kaggle_data, ret.at, ret.user_plants)

(* C6: for a species that resolves to a profile, watering_frequency_days   *)
(* is the floor of base * seasonal multiplier * growth multiplier and      *)
(* next_watering is last_watered plus that many days.                      *)
C6_FloorOfProduct ==
    (Generated /\ Len(ResolvedInfo) > 0) =>
        LET info == ResolvedInfo[1]
            expected == ExactFloor(GetOr(info.frequency_days, 7),
                                   GetOr(info.seasonal[get_current_season(ret.at)], 10),
                                   GetOr(info.growth[determine_growth_stage(ret.at, ret.plant_added_date)], 10))
        IN  /\ ret.out.watering_frequency_days = expected
            /\ ret.out.next_watering = ret.last_watered + Days(expected)

(* The scenario of C7: one plant added 10 days ago and watered 15 days ago, *)
(* profile base 14, winter 1.3, new plant 1.2, evaluated in winter         *)
C7_Scenario ==
    /\ Reminded
    /\ Len(ret.user_plants) = 1
    /\ ret.user_plants[1].created_at = ret.at - Days(10)
    /\ ret.user_plants[1].last_watered = ret.at - Days(15)
    /\ get_current_season(ret.at) = "winter"
    /\ LET info == get_plant_care_info(care_data, kaggle_data, ret.user_plants[1].common_name)
       IN  /\ Len(info) > 0
           /\ info[1].frequency_days = 14
           /\ info[1].seasonal["winter"] = 13
           /\ info[1].growth["new_plant"] = 12

C7_Schedule == ScheduleOf(care_data, kaggle_data, ret.at, ret.user_plants[1])

(* C7 as stated: in the scenario the adjusted frequency is 21 days,        *)
(* next_watering is last_watered + 21 days, that date is not later than    *)
(* now, and the result holds a watering reminder for the plant.            *)
C7_ScenarioReminderDue ==
    C7_Scenario =>
        /\ C7_Schedule.watering_frequency_days = 21
        /\ C7_Schedule.next_watering = ret.user_plants[1].last_watered + Days(21)
        /\ C7_Schedule.next_watering <= ret.at
        /\ \E i \in 1..Len(ret.out) :
              /\ ret.out[i].care_type = "watering"
              /\ ret.out[i].plant_id = ret.user_plants[1].id
              /\ ret.out[i].urgency
                    = _calculate_urgency("watering", WholeDays(ret.at - C7_Schedule.next_watering))

(* C7 amended: in the scenario the adjusted frequency is 21 days,          *)
(* next_watering is last_watered + 21 days, that date is 6 days after now, *)
(* and the result holds no watering reminder for the plant.                *)
C7_ScenarioNotYetDue ==
    C7_Scenario =>
        /\ C7_Schedule.watering_frequency_days = 21
        /\ C7_Schedule.next_watering = ret.user_plants[1].last_watered + Days(21)
        /\ C7_Schedule.next_watering = ret.at + Days(6)
        /\ \A i \in 1..Len(ret.out) : ret.out[i].care_type # "watering"

C7_Witness == C7_Scenario

(* C8: for every plant, resolved or not, next_fertilizing is               *)
(* last_fertilized plus the profile's fertilizing frequency when           *)
(* last_fertilized is present, and now + 14 days when it is absent.        *)
C8_NextFertilizing ==
    Generated =>
        LET info == ResolvedInfo
            frequency == IF Len(info) > 0 THEN GetOr(info[1].fertilizing_days, 60) ELSE 60
        IN  /\ ret.last_fertilized # None =>
                  ret.out.next_fertilizing = ret.last_fertilized + Days(frequency)
            /\ ret.last_fertilized = None =>
                  ret.out.next_fertilizing = ret.at + Days(14)

C10_TierOrder ==
    LookedUp =>
        LET name == ret.plant_type
            lower == Lower(name)
            key == SpacesToUnderscores(lower)
            IsKey(i) == care_data[i].key = key
            IsAlias(i) == \E n \in 1..Len(care_data[i].info.common_names) :
                              Lower(care_data[i].info.common_names[n]) = lower
            IsExact(i) == kaggle_data[i].name = lower
            IsPartial(i) == Contains(kaggle_data[i].name, lower) \/ Contains(lower, kaggle_data[i].name)
            curated == 1..Len(care_data)
            catalog == 1..Len(kaggle_data)
            hit1 == \E i \in curated : IsKey(i)
            hit2 == \E i \in curated : IsAlias(i)
            hit3 == \E i \in catalog : IsExact(i)
            hit4 == \E i \in catalog : IsPartial(i)
        IN  /\ hit1 => \E i \in curated : IsKey(i) /\ ret.out = <<care_data[i].info>>
            /\ (~hit1 /\ hit2) =>
                  \E i \in curated :
                      /\ IsAlias(i)
                      /\ \A j \in 1..(i - 1) : ~IsAlias(j)
                      /\ ret.out = <<care_data[i].info>>
            /\ (~hit1 /\ ~hit2 /\ hit3) =>
                  \E i \in catalog :
                      /\ IsExact(i)
                      /\ ret.out = <<_create_care_info_from_kaggle(kaggle_data[i].plant)>>
            /\ (~hit1 /\ ~hit2 /\ ~hit3 /\ hit4) =>
                  \E i \in catalog :
                      /\ IsPartial(i)
                      /\ \A j \in 1..(i - 1) : ~IsPartial(j)
                      /\ ret.out = <<_create_care_info_from_kaggle(kaggle_data[i].plant)>>

(* A name that hits the curated keys while an alias of another curated     *)
(* profile and a catalog record match it too                               *)
C10_Witness ==
    /\ LookedUp
    /\ Tier1Hits(care_data, ret.plant_type) # {}
    /\ \E i \in Tier2Hits(care_data, ret.plant_type) : <<care_data[i].info>> # ret.out
    /\ \E i \in Tier3Hits(kaggle_data, ret.plant_type) :
          <<_create_care_info_from_kaggle(kaggle_data[i].plant)>> # ret.out

(* A spelling without its letter case, its surrounding blanks and the      *)
(* difference between spaces and underscores                               *)
NormalisedSpelling(s) == SpacesToUnderscores(Lower(Strip(s)))

(* C11: a name that differs from a curated key only in letter case, in     *)
(* leading or trailing blanks, or in spaces for underscores resolves to    *)
(* the curated profile of that key.                                        *)
C11_NormalisedKeyLookup ==
    LookedUp =>
        \A i \in 1..Len(care_data) :
            NormalisedSpelling(ret.plant_type) = NormalisedSpelling(care_data[i].key)
                => ret.out = <<care_data[i].info>>

Constructed == ret.op = "__init__"

(* The table of a source in the engine in use *)
TableOf(source) ==
    CASE source = "care" -> care_data
      [] source = "personality" -> personality_data
      [] source = "kaggle" -> kaggle_data

FullTableOf(source) ==
    CASE source = "care" -> LoadedCareData
      [] source = "personality" -> LoadedPersonalityData
      [] source = "kaggle" -> LoadedKaggleData

(* C12: whichever of the three backing files are missing or malformed,     *)
(* constructing the engine raises nothing, the table of each such file is  *)
(* empty and the table of every other file is loaded in full.              *)
C12_LoadingNeverFatal ==
    Constructed =>
        /\ ret.raised = ""
        /\ \A source \in Sources :
              TableOf(source) = IF ret.files[source] = "present"
                                THEN FullTableOf(source) ELSE << >>

Parsed == ret.op = "parse_watering_frequency_from_text"

(* The phrase sets as the description of the parser lists them *)
DroughtPhrases == {"only when", "must be dry", "completely dry"}
MoisturePhrases == {"moist", "must not be dry", "frequently"}
ModeratePhrases == {"half dry", "regularly", "normal"}
VesselPhrases == {"change water", "vase"}

HasDroughtPhrase == ContainsAny(Lower(ret.watering_text), DroughtPhrases)
HasMoisturePhrase == ContainsAny(Lower(ret.watering_text), MoisturePhrases)
HasModeratePhrase == ContainsAny(Lower(ret.watering_text), ModeratePhrases)
HasVesselPhrase == ContainsAny(Lower(ret.watering_text), VesselPhrases)

CategoryIsSucculent == IsSucculent(Lower(ret.category))
CategoryIsFern == Contains(Lower(ret.category), "fern")

(* C13 as stated: a watering text with a drought-tolerance phrase gives a  *)
(* base frequency of at least 10 days for every category.                  *)
C13_DroughtAtLeastTen ==
    (Parsed /\ HasDroughtPhrase) => ret.out[1] >= 10

(* C13 amended: a watering text with a drought-tolerance phrase gives a    *)
(* base frequency of at least 10 days for every category that does not     *)
(* contain "fern" or that contains "succulent" or "cactus".                *)
C13_DroughtAtLeastTenUnlessFern ==
    (Parsed /\ HasDroughtPhrase /\ (~CategoryIsFern \/ CategoryIsSucculent))
        => ret.out[1] >= 10

(* A text with a drought phrase and a moisture phrase, parsed for a        *)
(* category that names both a succulent and a fern                         *)
C13_Witness ==
    /\ Parsed
    /\ HasDroughtPhrase
    /\ HasMoisturePhrase
    /\ CategoryIsFern
    /\ CategoryIsSucculent
    /\ ret.out[1] = 14

(* C14: a watering text with a moisture-loving phrase and no               *)
(* drought-tolerance phrase gives a base frequency of at most 5 days for   *)
(* every category.                                                         *)
C14_MoistAtMostFive ==
    (Parsed /\ HasMoisturePhrase /\ ~HasDroughtPhrase) => ret.out[1] <= 5

(* C15 as stated: a succulent or cactus category gives a base frequency of *)
(* at least 10 days and a fern category one of at most 5 days, for every   *)
(* watering text.                                                          *)
C15_CategoryCorrection ==
    Parsed =>
        /\ CategoryIsSucculent => ret.out[1] >= 10
        /\ CategoryIsFern => ret.out[1] <= 5

(* C15 amended: a succulent or cactus category gives a base frequency of   *)
(* at least 10 days, and a fern category that names neither a succulent    *)
(* nor a cactus one of at most 5 days, for every watering text.            *)
C15_CategoryCorrectionExclusive ==
    Parsed =>
        /\ CategoryIsSucculent => ret.out[1] >= 10
        /\ (CategoryIsFern /\ ~CategoryIsSucculent) => ret.out[1] <= 5

(* A drought text brought down to 5 days by a fern category *)
C15_Witness ==
    /\ Parsed
    /\ PhraseRule(Lower(ret.watering_text)) = "dry"
    /\ CategoryIsFern
    /\ ~CategoryIsSucculent
    /\ ret.out[1] = 5

(* What the listed rule of the highest priority that matches returns *)
ListedRule ==
    IF HasDroughtPhrase THEN "dry"
    ELSE IF HasMoisturePhrase THEN "moist"
    ELSE IF HasModeratePhrase THEN "moderate"
    ELSE IF HasVesselPhrase THEN "vase"
    ELSE "none"

ListedResult ==
    CASE ListedRule = "dry" -> <<14, Mult(9, 8, 11, 15)>>
      [] ListedRule = "moist" -> <<4, Mult(9, 7, 11, 13)>>
      [] ListedRule = "moderate" -> <<7, Mult(9, 8, 11, 13)>>
      [] ListedRule = "vase" -> <<5, Mult(9, 8, 11, 12)>>
      [] OTHER -> << >>

(* C16: for a category that triggers no clamp, a text that matches one or  *)
(* more of the phrase sets gets the result of the matching set of highest  *)
(* priority, drought > moisture > moderate > vessel: (14, winter 1.5),     *)
(* (4, summer 0.7), (7) or (5, winter 1.2), every other multiplier at its  *)
(* default.                                                                *)
C16_PhrasePriority ==
    (Parsed /\ ~CategoryIsSucculent /\ ~CategoryIsFern /\ ListedRule # "none")
        => ret.out = ListedResult

StageDetermined == ret.op = "determine_growth_stage"

(* C17: the growth stage depends only on the whole days elapsed since the  *)
(* plant entered care: fewer than 28 new_plant, 28 up to 364 established,  *)
(* 365 or more mature, and every elapsed time has exactly one stage.       *)
C17_GrowthStageBands ==
    StageDetermined =>
        LET elapsed == ret.at - ret.plant_added_date
        IN  /\ ret.out \in GrowthStages
            /\ ret.out = "new_plant" <=> elapsed < Days(28)
            /\ ret.out = "established" <=> (elapsed >= Days(28) /\ elapsed < Days(365))
            /\ ret.out = "mature" <=> elapsed >= Days(365)

(* A plant one tick short of 365 days in care is still established *)
C17_Witness ==
    /\ StageDetermined
    /\ ret.at - ret.plant_added_date = Days(365) - 1
    /\ ret.out = "established"

(* C18: every reminder get_due_reminders returns is a watering or a        *)
(* fertilizing reminder; a repotting date in the past produces none.       *)
C18_NoRepottingReminder ==
    Reminded =>
        \A i \in 1..Len(ret.out) : ret.out[i].care_type \in {"watering", "fertilizing"}

(* A call that returned reminders for a plant whose repotting date has passed *)
C18_Witness ==
    /\ Reminded
    /\ Len(ret.user_plants) = 1
    /\ Len(ret.out) = 2
    /\ LET schedule == ScheduleOf(care_data, kaggle_data, ret.at, ret.user_plants[1])
       IN  schedule.next_repotting # None /\ schedule.next_repotting < ret.at

Detected == ret.op = "detect_care_action"
Processed == ret.op = "process_sms_message"

(* The keywords as the description of the interpreter lists them *)
PrimaryVerbs ==
    << <<"watered", "watering">>, <<"fertilized", "fertilizing">>,
       <<"repotted", "repotting">>, <<"misted", "misting">>, <<"pruned", "pruning">> >>

SecondarySynonyms == {"water", "fed", "feed", "mist", "spray", "trim", "cut"}

HasPrimaryVerb(message) ==
    \E i \in 1..Len(PrimaryVerbs) : Contains(Lower(message), PrimaryVerbs[i][1])

HasListedKeyword(message) ==
    HasPrimaryVerb(message) \/ ContainsAny(Lower(message), SecondarySynonyms)

(* C19: a message that contains a primary verb gets the action of the      *)
(* first primary verb, in declared order, that occurs in it, whichever     *)
(* secondary synonyms occur and wherever; "I just fertilized my ficus"     *)
(* gives fertilizing.                                                      *)
C19_PrimaryVerbsFirst ==
    Detected =>
        /\ HasPrimaryVerb(ret.message) =>
              \E i \in 1..Len(PrimaryVerbs) :
                  /\ Contains(Lower(ret.message), PrimaryVerbs[i][1])
                  /\ \A j \in 1..(i - 1) : ~Contains(Lower(ret.message), PrimaryVerbs[j][1])
                  /\ ret.out = <<PrimaryVerbs[i][2]>>
        /\ ret.message = "I just fertilized my ficus" => ret.out = <<"fertilizing">>

(* A message in which a synonym of another action stands before the        *)
(* primary verb                                                            *)
C19_Witness ==
    /\ Detected
    /\ Contains(Lower(ret.message), "fed it")
    /\ Contains(Lower(ret.message), "pruned")
    /\ ret.out = <<"pruning">>

(* C20: for a message without any of the listed keywords                   *)
(* detect_care_action returns None, and process_sms_message, for a sender  *)
(* with plants, returns status no_action_detected and raises nothing.      *)
C20_NoActionDetected ==
    /\ (Detected /\ ~HasListedKeyword(ret.message)) => ret.out = << >>
    /\ (Processed /\ ~HasListedKeyword(ret.message_body)) =>
          LET user == find_user_by_phone(db_users, ret.phone_number)
          IN  (user # << >> /\ ActivePlants(db_user_plants, user[1].id) # {}) =>
                  /\ ret.out.raised = ""
                  /\ ret.out.status = "no_action_detected"

Extracted == ret.op = "extract_plant_name"

(* The nickname occurs in the message, whatever the case of the letters *)
NicknameOccurs(message, nickname) == Contains(Lower(message), Lower(nickname))

(* The plants of the list handed over whose nickname occurs in the message *)
NamedPlants == {i \in 1..Len(ret.user_plants) : NicknameOccurs(ret.message, ret.user_plants[i].nickname)}

(* The plant is matched by its species name or by a token of its nickname *)
MatchedBelowNickname(message, plant) ==
    \/ /\ plant.plant_catalog # << >>
       /\ Contains(Lower(message), Lower(plant.plant_catalog[1].name))
    \/ WordsOverlap(Split(Lower(message)), Split(Lower(plant.nickname)))

(* C21: extract_plant_name gives the nickname match precedence over the     *)
(* species-name and token-overlap matches across the whole list: when the   *)
(* nickname of some plant occurs in the message (case-insensitively) the    *)
(* method returns the nickname of a plant whose nickname occurs, wherever   *)
(* that plant stands in the list, and when exactly one nickname occurs it   *)
(* returns that one.                                                        *)
C21_NicknamePrecedence ==
    (Extracted /\ NamedPlants # {}) =>
        /\ ret.out.raised = ""
        /\ \E i \in NamedPlants : ret.out.value = <<ret.user_plants[i].nickname>>
        /\ Cardinality(NamedPlants) = 1 =>
              \A i \in NamedPlants : ret.out.value = <<ret.user_plants[i].nickname>>

(* A plant named by its nickname is returned although the plant before it  *)
(* in the list is matched by its species name                              *)
C21_Witness ==
    /\ Extracted
    /\ Len(ret.user_plants) = 2
    /\ NamedPlants = {2}
    /\ ret.user_plants[1].plant_catalog # << >>
    /\ Contains(Lower(ret.message), Lower(ret.user_plants[1].plant_catalog[1].name))
    /\ MatchedBelowNickname(ret.message, ret.user_plants[1])
    /\ ret.out.value = <<ret.user_plants[2].nickname>>

(* The plants of the list whose loaded species name occurs in the message *)
SpeciesPlants ==
    {i \in 1..Len(ret.user_plants) :
        /\ ret.user_plants[i].plant_catalog # << >>
        /\ Contains(Lower(ret.message), Lower(ret.user_plants[i].plant_catalog[1].name))}

(* The plants of the list a token of whose nickname overlaps a token of the *)
(* message, both of three letters or more                                   *)
TokenPlants ==
    {i \in 1..Len(ret.user_plants) :
        \E m \in 1..Len(Split(Lower(ret.message))) :
        \E n \in 1..Len(Split(Lower(ret.user_plants[i].nickname))) :
            LET msg_word == Split(Lower(ret.message))[m]
                nick_word == Split(Lower(ret.user_plants[i].nickname))[n]
            IN  /\ Len(msg_word) >= 3
                /\ Len(nick_word) >= 3
                /\ Contains(nick_word, msg_word) \/ Contains(msg_word, nick_word)}

(* The plants that match at the first tier at which any plant matches *)
MatchedAtFirstTier ==
    IF NamedPlants # {} THEN NamedPlants
    ELSE IF SpeciesPlants # {} THEN SpeciesPlants
    ELSE TokenPlants

(* C22: when the list has more than one plant and two or more of them match *)
(* the message at the same tier, extract_plant_name answers with no plant   *)
(* (ambiguous) and never with one of the matching plants.                   *)
C22_AmbiguousNotGuessed ==
    (Extracted /\ Len(ret.user_plants) > 1 /\ Cardinality(MatchedAtFirstTier) >= 2) =>
        ret.out = Returned(<< >>)

(* The sender of the message processed, << >> when no user has the number *)
Sender == find_user_by_phone(db_users, ret.phone_number)

(* The rows of the sender's active plants *)
SenderPlants == ActivePlants(db_user_plants, Sender[1].id)

(* The message names the plant of a row at some tier: by nickname, by      *)
(* species name or by a token of three letters or more                     *)
RowMatches(message, row) ==
    \/ Contains(Lower(message), Lower(row.nickname))
    \/ Contains(Lower(message), Lower(row.catalog_name))
    \/ \E m \in 1..Len(Split(Lower(message))), n \in 1..Len(Split(Lower(row.nickname))) :
          LET msg_word == Split(Lower(message))[m]
              nick_word == Split(Lower(row.nickname))[n]
          IN  /\ Len(msg_word) >= 3
              /\ Len(nick_word) >= 3
              /\ Contains(nick_word, msg_word) \/ Contains(msg_word, nick_word)

(* C23: when the sender has exactly one active plant and the message, with  *)
(* a detected action, matches it at no tier, process_sms_message resolves   *)
(* to that plant and records the action against it ("just fed my plant").   *)
C23_SinglePlantFallback ==
    (Processed /\ Sender # << >>) =>
        \A i \in SenderPlants :
            (/\ SenderPlants = {i}
             /\ HasListedKeyword(ret.message_body)
             /\ ~RowMatches(ret.message_body, db_user_plants[i])) =>
                /\ ret.out.raised = ""
                /\ ret.out.status \in {"success", "recording_failed"}
                /\ ret.out.plant_name = <<db_user_plants[i].nickname>>
                /\ ret.out.status = "success" =>
                      \E h \in 1..Len(db_care_history) :
                          /\ db_care_history[h].user_plant_id = db_user_plants[i].id
                          /\ db_care_history[h].completed_at = ret.at

(* Every plant of the list handed over has its plant_catalog loaded *)
CatalogLoaded == \A i \in 1..Len(ret.user_plants) : ret.user_plants[i].plant_catalog # << >>

(* C24: with two or more plants and a message that matches none of them at  *)
(* any tier (no nickname, no species name, no token overlap), no plant is   *)
(* chosen: extract_plant_name returns None and process_sms_message reports  *)
(* status plant_not_identified ("watered it" with Fernando and Sammy).      *)
C24_NoMatchNotIdentified ==
    /\ (/\ Extracted
        /\ Len(ret.user_plants) >= 2
        /\ CatalogLoaded
        /\ NamedPlants = {} /\ SpeciesPlants = {} /\ TokenPlants = {}) =>
            ret.out = Returned(<< >>)
    /\ (Processed /\ Sender # << >>) =>
          ((/\ Cardinality(SenderPlants) >= 2
            /\ HasListedKeyword(ret.message_body)
            /\ \A i \in SenderPlants : ~RowMatches(ret.message_body, db_user_plants[i])) =>
                /\ ret.out.raised = ""
                /\ ret.out.status = "plant_not_identified"
                /\ ret.out.plant_name = << >>
                /\ db_care_history = << >>)

(* The calls that read the knowledge base of a constructed engine *)
ReadingCalls ==
    {"get_plant_care_info", "generate_care_schedule", "get_due_reminders",
     "get_seasonal_care_tips"}

C26_AwareTimestampsAccepted ==
    ret.op \in {"generate_care_schedule", "get_due_reminders"} => ret.raised = ""

Scheduled == ret.op = "get_user_care_schedule" /\ ret.out.raised = ""

(* The watering frequency, in days, the response gives for a plant *)
FrequencyIn(schedules, plant_id) ==
    LET found == {i \in 1..Len(schedules) : schedules[i].plant_id = plant_id}
    IN  schedules[First(found)].watering_frequency_days

(* The response holds a watering reminder for the plant *)
WateringReminded(due_reminders, plant_id) ==
    \E r \in 1..Len(due_reminders) :
        due_reminders[r].plant_id = plant_id /\ due_reminders[r].care_type = "watering"

(* C27: record-then-recompute.  Once record_care_action has recorded a     *)
(* watering for a plant at an instant, every evaluation of                 *)
(* get_due_reminders made before the plant's adjusted watering frequency   *)
(* (in days) has elapsed since then holds no watering reminder for that    *)
(* plant: a watering reminder for it appears only when the recorded        *)
(* instant plus the frequency is not later than now.                       *)
C27_RecordThenRecompute ==
    Scheduled =>
        \A h \in 1..Len(db_care_history), s \in 1..Len(ret.out.schedules) :
            (/\ db_care_history[h].task_type = "watering"
             /\ db_care_history[h].user_plant_id = ret.out.schedules[s].plant_id
             /\ WateringReminded(ret.out.due_reminders, ret.out.schedules[s].plant_id)) =>
                db_care_history[h].completed_at
                    + Days(ret.out.schedules[s].watering_frequency_days) <= ret.at

(* A plant that was overdue has been watered by message, and an evaluation *)
(* made before its frequency has elapsed holds no reminder for it          *)
C27_Witness ==
    /\ Scheduled
    /\ \E h \in 1..Len(db_care_history), s \in 1..Len(ret.out.schedules) :
        /\ db_care_history[h].task_type = "watering"
        /\ db_care_history[h].user_plant_id = ret.out.schedules[s].plant_id
        /\ ret.out.schedules[s].watering_frequency_days >= 1
        /\ db_care_history[h].completed_at < ret.at
        /\ ret.at < db_care_history[h].completed_at
                      + Days(ret.out.schedules[s].watering_frequency_days)
        /\ ~WateringReminded(ret.out.due_reminders, ret.out.schedules[s].plant_id)
        /\ \E i \in 1..Len(SeedUserPlants) :
            /\ SeedUserPlants[i].id = ret.out.schedules[s].plant_id
            /\ SeedUserPlants[i].last_watered # None
            /\ SeedUserPlants[i].last_watered
                  + Days(ret.out.schedules[s].watering_frequency_days) <= ret.at

(* The step adds one care-history record, for the active plant of the user *)
(* with the nickname, and changes that plant's row alone: last_watered for *)
(* watering, last_fertilized for fertilizing, nothing for another care     *)
RecordedFor(user_id, plant_nickname, care_type) ==
    /\ Len(db_care_history') = Len(db_care_history) + 1
    /\ SubSeq(db_care_history', 1, Len(db_care_history)) = db_care_history
    /\ Len(db_user_plants') = Len(db_user_plants)
    /\ \E i \in 1..Len(db_user_plants) :
        /\ db_user_plants[i].user_id = user_id
        /\ db_user_plants[i].nickname = plant_nickname
        /\ db_user_plants[i].is_active
        /\ db_care_history'[Len(db_care_history')].user_plant_id = db_user_plants[i].id
        /\ db_care_history'[Len(db_care_history')].task_type = care_type
        /\ db_care_history'[Len(db_care_history')].completed_at = now
        /\ \A j \in 1..Len(db_user_plants) : j # i => db_user_plants'[j] = db_user_plants[j]
        /\ db_user_plants'[i] =
              [db_user_plants[i] EXCEPT
                  !.last_watered = IF care_type = "watering" THEN now ELSE @,
                  !.last_fertilized = IF care_type = "fertilizing" THEN now ELSE @]

NeverFertilized ==
    {i \in 1..Len(ret.user_plants) : ret.user_plants[i].last_fertilized = None}

(* C29: a plant whose last_fertilized is absent never produces a           *)
(* fertilizing reminder: get_due_reminders returns no reminder of care     *)
(* type fertilizing with its plant_id, whatever the instant of the call    *)
(* and however long ago the plant was added; and the schedule              *)
(* generate_care_schedule builds for it has a next_fertilizing that is     *)
(* absent or later than the instant of the call.                           *)
C29_NeverFertilizedNeverReminded ==
    /\ ret.op = "get_due_reminders" =>
          \A i \in NeverFertilized :
             \A k \in 1..Len(ret.out) :
                ~(/\ ret.out[k].care_type = "fertilizing"
                  /\ ret.out[k].plant_id = ret.user_plants[i].id)
    /\ (Generated /\ ret.last_fertilized = None) =>
          \/ ret.out.next_fertilizing = None
          \/ ret.out.next_fertilizing > ret.at

(* A plant of a known species, added 400 days or longer ago and never     *)
(* fertilized, is reminded of watering and of nothing else                 *)
C29_Witness ==
    /\ Reminded
    /\ Len(ret.user_plants) = 1
    /\ ret.user_plants[1].last_fertilized = None
    /\ ret.user_plants[1].created_at # Missing
    /\ ret.user_plants[1].created_at <= ret.at - Days(400)
    /\ get_plant_care_info(care_data, kaggle_data, ret.user_plants[1].common_name) # << >>
    /\ Len(ret.out) = 1
    /\ ret.out[1].care_type = "watering"

(* A run of the reminder task that went through to its result *)
Checked == ret.op = "check_user_plants_for_care" /\ ret.out.status = "completed"

Sendable(reminder) == reminder.urgency \in {"medium", "high", "critical"}

(* The due reminders of the run of urgency medium or higher, in the order  *)
(* the engine returned them: by due date                                   *)
SendableReminders(run) == SelectSeq(run.out.due_reminders, Sendable)

(* The message that announces a reminder to the user of the run *)
SmsFor(run, reminder) ==
    [user_phone |-> db_users[First({u \in 1..Len(db_users) : db_users[u].id = run.user_id})].phone,
     plant_name |-> reminder.plant_name,
     care_type |-> reminder.care_type,
     urgency |-> reminder.urgency]

(* The sendable reminders whose call of delay did not raise, and the k-th  *)
(* of them                                                                 *)
Accepted(run) == {k \in 1..Len(SendableReminders(run)) : k \notin run.failing}
NthAccepted(run, j) ==
    CHOOSE k \in Accepted(run) : Cardinality({i \in Accepted(run) : i <= k}) = j

(* A reminder the task is to keep to itself: watering due for less than a  *)
(* whole day, fertilizing overdue by at most 7 whole days                  *)
TooFresh(run, reminder) ==
    \/ reminder.care_type = "watering" /\ WholeDays(run.at - reminder.due_date) < 1
    \/ reminder.care_type = "fertilizing" /\ WholeDays(run.at - reminder.due_date) <= 7

(* C30 as stated: a run of check_user_plants_for_care schedules one SMS    *)
(* for each due reminder of urgency medium, high or critical, in due-date  *)
(* order, and no other; so none for a watering reminder less than a whole  *)
(* day overdue or a fertilizing reminder at most 7 days overdue.           *)
C30_OneSmsPerUrgentReminder ==
    Checked =>
       /\ Len(ret.out.sms) = Len(SendableReminders(ret))
       /\ \A k \in 1..Len(ret.out.sms) :
             k <= Len(SendableReminders(ret)) =>
                ret.out.sms[k] = SmsFor(ret, SendableReminders(ret)[k])
       /\ \A i \in 1..Len(ret.out.due_reminders) :
             TooFresh(ret, ret.out.due_reminders[i]) =>
                \A k \in 1..Len(ret.out.sms) :
                   ~(/\ ret.out.sms[k].plant_name = ret.out.due_reminders[i].plant_name
                     /\ ret.out.sms[k].care_type = ret.out.due_reminders[i].care_type)

(* C30, amended: a run of check_user_plants_for_care adds to the queue of  *)
(* the SMS task, in due-date order, one message for each due reminder of   *)
(* urgency medium, high or critical whose call of delay did not raise, and *)
(* nothing else; sms_scheduled counts them; none is for a reminder of      *)
(* urgency low, so none for a watering reminder less than a whole day      *)
(* overdue or a fertilizing reminder at most 7 days overdue.  A run that   *)
(* ends without a result of status completed adds nothing.                 *)
C30_OneSmsPerAcceptedReminder ==
    [][ret'.op = "check_user_plants_for_care" /\ ret.op = "none" =>
          IF ret'.out.status = "completed"
          THEN /\ Len(ret'.out.sms) = Cardinality(Accepted(ret'))
               /\ \A j \in 1..Len(ret'.out.sms) :
                     ret'.out.sms[j] = SmsFor(ret', SendableReminders(ret')[NthAccepted(ret', j)])
               /\ ret'.out.sms_scheduled = Len(ret'.out.sms)
               /\ sms_queue' = sms_queue \o ret'.out.sms
               /\ \A i \in 1..Len(ret'.out.due_reminders) :
                     (\/ TooFresh(ret', ret'.out.due_reminders[i])
                      \/ ret'.out.due_reminders[i].urgency = "low") =>
                        \A k \in 1..Len(ret'.out.sms) :
                           ~(/\ ret'.out.sms[k].plant_name = ret'.out.due_reminders[i].plant_name
                             /\ ret'.out.sms[k].care_type = ret'.out.due_reminders[i].care_type)
          ELSE sms_queue' = sms_queue]_vars

(* A run for user 1 that found a reminder of urgency low and at least      *)
(* three of higher urgency, of which one could not be handed to the SMS    *)
(* task and the others wait in its queue                                   *)
C30_Witness ==
    /\ Checked
    /\ ret.user_id = 1
    /\ \E i \in 1..Len(ret.out.due_reminders) : ret.out.due_reminders[i].urgency = "low"
    /\ Len(SendableReminders(ret)) >= 3
    /\ Cardinality(ret.failing) = 1
    /\ Len(ret.out.sms) >= 2
    /\ sms_queue = ret.out.sms

====
